---- MODULE Spec2Model ----
(***************************************************************************)
(* Model of the ObjectBox C++ binding (include/objectbox.hpp):             *)
(*   - the query condition algebra (QueryCondition, QCGroup, QC...),       *)
(*   - lowering a condition tree onto the native query builder (applyTo),  *)
(*   - the Transaction RAII wrapper over the native transaction.           *)
(***************************************************************************)
EXTENDS Integers, Sequences, FiniteSets, TLC

\* ---------------------------------------------------------------- bounds
\* number of combine operations (and_, or_, operator&&, operator||) a run performs
MaxOps == 2
\* number of Transaction objects a run constructs
MaxTx == 2
\* number of objects a run puts
MaxPuts == 1
\* number of Transaction moves (move construction, move assignment) a run performs
MaxMoves == 1
\* largest literal of a condition, largest offset and limit
MaxVal == 2
\* number of QueryBuilder objects (root builder and linked builders) a run creates
MaxBuilders == 2
\* number of Query objects a run builds
MaxQueries == 2
\* number of CursorTx objects a run creates
MaxCtx == 2
\* number of failing condition calls on a builder after its first one
MaxLate == 2
\* number of threads that use the Store
MaxThreads == 2
\* number of Store::close() and Sync::client() calls of one thread
MaxStoreCalls == 2
\* number of listener objects handed to a SyncClient
MaxListeners == 3
\* length of the vectors passed to Box::put and Box::get
MaxObjs == 2
\* the object ids a run stores are 1..MaxId
MaxId == 2
\* number of Box calls of a run
MaxCalls == 3
\* the put calls of a run are among its first MaxPutCalls Box calls
MaxPutCalls == 2
\* number of leaf conditions the program starts with
NumLeaves == 2

\* ------------------------------------------------------- condition algebra
\* qheap    : the QueryCondition objects that exist, by address (index);
\*            a QC leaf has no children, a QCGroup has isOr_ and conditions_
\*            (a vector of shared pointers = addresses into qheap)
\* qlocals  : addresses of the objects the program holds by value
\*            (the leaves it created and the groups returned by combines)
\* qlast    : the combine executed last (operator, operands, returned object)
\* qops     : number of combines executed
\* qchain   : for each held object built as a left-to-right chain of leaves
\*            under one combinator, that combinator and the leaves in order
\* qmoved   : the objects that were moved from (by return std::move(lhs))
\* qtainted : the objects built from an operand that was moved from before
VARIABLES qheap, qlocals, qlast, qops, qchain, qmoved, qtainted

varsQC == <<qheap, qlocals, qlast, qops, qchain, qmoved, qtainted>>

\* ------------------------------------------------------ query builder, query
\* bphase  : how far the program is: "conditions" (combining conditions),
\*           "applied" (with() returned), "failed" (with() threw),
\*           "built" (build() returned a query), "found" (find() returned)
\* cqb     : the native query builder: the conditions created in it, in
\*           creation order; a condition handle (obx_qb_cond) is its index
\* bwith   : the with() call made: the condition applied and what
\*           internalApplyCondition returned or whether it threw
\* cquery  : the native query: the handles of its top-level conditions
\* found   : the rows find() returned
VARIABLES bphase, cqb, bwith, cquery, found

varsQB == <<bphase, cqb, bwith, cquery, found>>

\* ------------------------------------------------------------ transactions
\* txs    : the Transaction objects constructed, in order: mode_, cTxn_ (a
\*          native handle, 0 = nullptr) and whether the object still exists
\* nat    : the native engine's transaction state on this thread:
\*            txn       the native handles issued (OBX_txn), by index; calls
\*                      counts the finishing calls (obx_txn_success,
\*                      obx_txn_close) the engine received for the handle
\*            stack     the open handles, outermost (top level) first
\*            failed    an inner write transaction ended without success
\*            pending   the objects put in the running top-level transaction
\*            committed the objects in the committed state of the store
\*            commits   number of commits performed
\* tsucc  : the native handles whose Transaction had success() called on it
\* tlast  : the Transaction method called last: the object it was called on
\*          (index into txs, 0 = none), the handle the object held and how
\*          the call ended
\* tgone  : for each Transaction object how it gave up its handle last:
\*          "no" (it holds one), "success", "close" or "moved"
\* seen   : what the last independent read transaction saw
\* nputs  : number of objects put so far
\* nmoves : number of Transaction moves so far
VARIABLES txs, nat, tsucc, tlast, seen, nputs, tgone, nmoves

varsTx == <<txs, nat, tsucc, tlast, seen, nputs, tgone, nmoves>>

\* ------------------------------------------- typed queries and parameters
\* rqbs   : the QueryBuilder objects: cQueryBuilder_ (a native builder handle)
\*          and isRoot_
\* rcqb   : the native query builders, by handle: whether the builder is a
\*          root builder and the conditions created in it, in creation order
\* rqs    : the Query objects: cQuery_ (a native query handle) and the
\*          QueryBuilder object whose build() returned the Query
\* rcq    : the native queries, by handle: the conditions compiled into the
\*          query with their current literals, the offset and the limit
\* rlast  : the call made last: object, property and argument, and how it ended
\* rfound : the ids findIds() returned last
\* rdirty : whether offset() / limit() was ever called with a non-zero value
VARIABLES rqbs, rcqb, rqs, rcq, rlast, rfound, rdirty

varsRun == <<rqbs, rcqb, rqs, rcq, rlast, rfound, rdirty>>

\* --------------------------------------------------- query execution
\* xlast    : the execution call made last on the Query: the error the native
\*            call reported, the exception that reached the caller (class and
\*            code()), and the ids of the objects handed to the caller
\* xremoved : the ids of the objects remove() deleted
VARIABLES xlast, xremoved

varsExec == <<xlast, xremoved>>

\* ------------------------------------------------------------ CursorTx
\* ctxs  : the CursorTx objects the program created: tx_ (a Transaction),
\*         cCursor_ (a native cursor handle, 0 = nullptr) and whether the
\*         object still exists
\* curs  : the native cursors issued (OBX_cursor), by handle: the native
\*         transaction the cursor was opened in, whether it is open, how
\*         often it was closed, and whether its transaction ended while the
\*         cursor was open
\* clast : the CursorTx method called last: the object, the handles the
\*         object held and how the call ended
VARIABLES ctxs, curs, clast

varsCur == <<ctxs, curs, clast>>

\* ----------------------------------------------------------------- Box
\* bout    : the object variable the program passes to get(id, outObject)
\* blast   : the Box method called last: its arguments (ids), what the engine
\*           reported, the native transaction the call ran in, what it
\*           returned and the exception it threw
\* bfailed : the native transactions of the put(vector) calls that threw
\* bcalls  : number of Box calls so far
VARIABLES bout, blast, bfailed, bcalls

varsBox == <<bout, blast, bfailed, bcalls>>

\* ------------------------------------------------------ Store and Sync
\* sstore   : the Store object: whether it was constructed, cStore_ (the
\*            native store handle, 0 = nullptr), owned_, syncClient_ (the
\*            SyncClient object the store points to, 0 = none) and
\*            syncClientMutex_ (the thread that holds it, 0 = free)
\* sclients : the SyncClient objects constructed, with their cSync_ (a native
\*            sync client handle, 0 = nullptr)
\* sengine  : the engine: how often the native store was closed, and for
\*            each native sync client how often it was closed
\* sthreads : for each thread its position inside Store::close() or
\*            Sync::client(), the locals of the call and the number of calls
\*            it has finished
\* slast    : the call that returned last: thread, operation, exception
VARIABLES sstore, sclients, sengine, sthreads, slast

varsStore == <<sstore, sclients, sengine, sthreads, slast>>

\* ------------------------------------------------ SyncClient listeners
\* listeners_ : the listeners_ struct of one open SyncClient: per slot the
\*              listener object its shared_ptr holds (0 = nullptr)
\* lreg       : the callbacks registered with the engine, per
\*              obx_sync_listener_* function: the listener class the callback
\*              casts its argument to ("none" = no callback) and the argument
\* lreleased  : the listener objects the client has released
\* lclass     : the listener objects handed to the client so far, by
\*              identity, with the class of each
\* levent     : the last error event of the engine: the argument its callback
\*              got and the method that ran
VARIABLES listeners_, lreg, lreleased, lclass, levent

varsLsn == <<listeners_, lreg, lreleased, lclass, levent>>

\* the state of the Store, Sync and SyncClient parts
varsConc == <<varsStore, varsLsn>>

\* the state of the query, transaction, cursor and box parts
varsData == <<varsQC, varsQB, varsTx, varsRun, varsExec, varsCur, varsBox>>

varsExt == <<varsExec, varsCur, varsBox, varsConc>>

vars == <<varsQC, varsQB, varsTx, varsRun, varsExt>>

\* class QC: a leaf condition on property propId_ (no children)
QC(propId) == [kind |-> "QC", isOr |-> FALSE, conditions |-> <<>>, propId |-> propId]

\* QCGroup::QCGroup(isOr, a, b): conditions_({a, b})
QCGroup(isOr, a, b) == [kind |-> "QCGroup", isOr |-> isOr, conditions |-> <<a, b>>, propId |-> 0]

\* result of a function that allocates: the new heap and the address returned
Ret(h, p) == [heap |-> h, ptr |-> p]

\* copyAsPtr(): new Derived(*this) - a copy of the object itself; for a group
\* the vector of shared pointers is copied, so the children are shared
copyAsPtr(h, x) == Ret(Append(h, h[x]), Len(h) + 1)

\* QueryCondition::and_/or_: return {isOr, copyAsPtr(), internalCopyAsPtr(other)}
QueryCondition_combine(h, isOr, x, y) ==
    LET a == copyAsPtr(h, x)
        b == copyAsPtr(a.heap, y)
    IN  Ret(Append(b.heap, QCGroup(isOr, a.ptr, b.ptr)), Len(b.heap) + 1)

\* faulty variant: the same-combinator combine nests the receiver instead of extending a copy
copyThisAndPush_Nest(h, x, y) == QueryCondition_combine(h, h[x].isOr, x, y)

\* faulty variant: the copy starts without the receiver's children
copyThisAndPush_Empty(h, x, y) ==
    LET c  == Len(h) + 1
        h1 == Append(h, [h[x] EXCEPT !.conditions = <<>>])
        b  == copyAsPtr(h1, y)
    IN  Ret([b.heap EXCEPT ![c].conditions = Append(@, b.ptr)], c)

\* faulty variant: the new condition is pushed onto the receiver as well as onto the copy
copyThisAndPush_InPlace(h, x, y) ==
    LET b  == copyAsPtr(h, y)
        h1 == [b.heap EXCEPT ![x].conditions = Append(@, b.ptr)]
    IN  Ret(Append(h1, h1[x]), Len(h1) + 1)

\* QCGroup::copyThisAndPush: QCGroup copy(*this); copy.conditions_.push_back(copy of other)
copyThisAndPush(h, x, y) ==
    LET c  == Len(h) + 1
        h1 == Append(h, h[x])
        b  == copyAsPtr(h1, y)
    IN  Ret([b.heap EXCEPT ![c].conditions = Append(@, b.ptr)], c)

\* faulty variant: and_ on a group always creates a new two-child group
QCGroup_and_Wrap(h, x, y) == QueryCondition_combine(h, FALSE, x, y)

\* QCGroup::and_ : an OR group is wrapped, an AND group is copied and extended
QCGroup_and_(h, x, y) ==
    IF h[x].isOr THEN QueryCondition_combine(h, FALSE, x, y)
    ELSE copyThisAndPush(h, x, y)

\* faulty variant: or_ on a group always extends a copy of the receiver
QCGroup_or_Extend(h, x, y) == copyThisAndPush(h, x, y)

\* QCGroup::or_ : an AND group is wrapped, an OR group is copied and extended
QCGroup_or_(h, x, y) ==
    IF ~h[x].isOr THEN QueryCondition_combine(h, TRUE, x, y)
    ELSE copyThisAndPush(h, x, y)

\* virtual dispatch of and_ / or_ on the receiver's class
and_(h, x, y) ==
    IF h[x].kind = "QCGroup" THEN QCGroup_and_(h, x, y)
    ELSE QueryCondition_combine(h, FALSE, x, y)

or_(h, x, y) ==
    IF h[x].kind = "QCGroup" THEN QCGroup_or_(h, x, y)
    ELSE QueryCondition_combine(h, TRUE, x, y)

\* faulty variant: lhs is moved into the result before the new condition is pushed
pushAndMove_MoveFirst(h, x, y) ==
    LET b  == copyAsPtr(h, y)
        r  == Len(b.heap) + 1
        h2 == Append(b.heap, b.heap[x])
    IN  Ret([h2 EXCEPT ![x].conditions = <<b.ptr>>], r)

\* lhs.conditions_.push_back(internalCopyAsPtr(rhs)); return std::move(lhs):
\* the returned object takes lhs's vector, the moved-from vector is empty
pushAndMove(h, x, y) ==
    LET b  == copyAsPtr(h, y)
        h1 == [b.heap EXCEPT ![x].conditions = Append(@, b.ptr)]
        r  == Len(h1) + 1
        h2 == Append(h1, h1[x])
    IN  Ret([h2 EXCEPT ![x].conditions = <<>>], r)

\* friend operator&&(QCGroup&& lhs, const QueryCondition& rhs)
opAndMove(h, x, y) ==
    IF h[x].isOr THEN and_(h, x, y) ELSE pushAndMove(h, x, y)

\* friend operator||(QCGroup&& lhs, const QueryCondition& rhs)
opOrMove(h, x, y) ==
    IF ~h[x].isOr THEN or_(h, x, y) ELSE pushAndMove(h, x, y)

\* the condition tree rooted at address x, as a value (structural equality)
RECURSIVE Tree(_, _)
Tree(h, x) ==
    IF h[x].kind = "QC" THEN [leaf |-> h[x].propId]
    ELSE [isOr |-> h[x].isOr,
          children |-> [i \in 1..Len(h[x].conditions) |-> Tree(h, h[x].conditions[i])]]

IsGroup(h, x) == h[x].kind = "QCGroup"

NoChain == [isOr |-> FALSE, leaves |-> <<>>]

\* the chain record of the object returned by combining x and y under isOr
ChainOf(isOr, x, y) ==
    IF /\ x \in DOMAIN qchain
       /\ qchain[x].leaves # <<>>
       /\ (Len(qchain[x].leaves) = 1 \/ qchain[x].isOr = isOr)
       /\ qheap[y].kind = "QC"
    THEN [isOr |-> isOr, leaves |-> Append(qchain[x].leaves, qheap[y].propId)]
    ELSE NoChain

InitQC ==
    /\ qheap = [i \in 1..NumLeaves |-> QC(i)]
    /\ qlocals = 1..NumLeaves
    /\ qlast = [op |-> "none", lhs |-> 0, rhs |-> 0, res |-> 0]
    /\ qops = 0
    /\ qchain = [i \in 1..NumLeaves |-> [isOr |-> FALSE, leaves |-> <<i>>]]
    /\ qmoved = {}
    /\ qtainted = {}

\* bookkeeping common to the four combines: r is what the operator returned,
\* isOr the combinator asked for, moves whether lhs was moved from
Combined(op, isOr, moves, x, y, r) ==
    /\ qheap' = r.heap
    /\ qlocals' = qlocals \cup {r.ptr}
    /\ qlast' = [op |-> op, lhs |-> x, rhs |-> y, res |-> r.ptr]
    /\ qops' = qops + 1
    /\ qchain' = [i \in (DOMAIN qchain) \cup {r.ptr} |->
                    IF i = r.ptr THEN ChainOf(isOr, x, y)
                    ELSE IF moves /\ i = x THEN NoChain
                    ELSE qchain[i]]
    /\ qmoved' = IF moves THEN qmoved \cup {x} ELSE qmoved
    /\ qtainted' = IF {x, y} \cap (qmoved \cup qtainted) # {}
                   THEN qtainted \cup ((Len(qheap) + 1)..Len(r.heap))
                   ELSE qtainted
    /\ bphase = "conditions"
    /\ UNCHANGED <<varsQB, varsTx, varsRun, varsExt>>

\* x.and_(y), also x && y with x an lvalue or a leaf
CallAnd ==
    \E x \in qlocals, y \in qlocals :
        /\ qops < MaxOps
        /\ Combined("and_", FALSE, FALSE, x, y, and_(qheap, x, y))

\* x.or_(y), also x || y with x an lvalue or a leaf
CallOr ==
    \E x \in qlocals, y \in qlocals :
        /\ qops < MaxOps
        /\ Combined("or_", TRUE, FALSE, x, y, or_(qheap, x, y))

\* std::move(x) && y, x a group
CallOpAndMove ==
    \E x \in qlocals, y \in qlocals :
        /\ qops < MaxOps
        /\ IsGroup(qheap, x)
        /\ Combined("opAndMove", FALSE, ~qheap[x].isOr, x, y, opAndMove(qheap, x, y))

\* std::move(x) || y, x a group
CallOpOrMove ==
    \E x \in qlocals, y \in qlocals :
        /\ qops < MaxOps
        /\ IsGroup(qheap, x)
        /\ Combined("opOrMove", TRUE, qheap[x].isOr, x, y, opOrMove(qheap, x, y))

NextQC == CallAnd \/ CallOr \/ CallOpAndMove \/ CallOpOrMove

\* ------------------------------------------------ native query builder
\* the rows of the entity: a row is <<key, S>>, S the set of leaf conditions
\* (by property) whose comparison is true for the row. Keys 1..5 are the rows
\* "open", "open", "open", "blocked", "done" of the status example with
\* leaf 1 = equals(status, open) and leaf 2 = equals(status, blocked);
\* key 0 holds one row for every combination of leaf outcomes.
Table ==
    {<<1, {1}>>, <<2, {1}>>, <<3, {1}>>, <<4, {2}>>, <<5, {}>>}
        \cup {<<0, S>> : S \in SUBSET (1..NumLeaves)}

\* a condition primitive (obx_qb_equals_int, obx_qb_null, ...) on a property:
\* creates a condition in the builder and returns its handle
obx_qb_leaf(b, propId) ==
    [cqb |-> Append(b, [kind |-> "leaf", propId |-> propId, args |-> <<>>]),
     cond |-> Len(b) + 1]

\* obx_qb_any: a new condition, true when any of the given conditions is
obx_qb_any(b, ids) ==
    [cqb |-> Append(b, [kind |-> "any", propId |-> 0, args |-> ids]),
     cond |-> Len(b) + 1]

\* obx_qb_all: a new condition, true when all of the given conditions are
obx_qb_all(b, ids) ==
    [cqb |-> Append(b, [kind |-> "all", propId |-> 0, args |-> ids]),
     cond |-> Len(b) + 1]

Range(f) == {f[i] : i \in DOMAIN f}

\* obx_query: the query keeps the builder's top-level conditions, those that
\* no combinator was given; they are implicitly ANDed
obx_query(b) ==
    {c \in 1..Len(b) : \A d \in 1..Len(b) : c \notin Range(b[d].args)}

\* whether condition c of builder b is true for a row
RECURSIVE CondTrue(_, _, _)
CondTrue(b, c, row) ==
    IF b[c].kind = "leaf" THEN b[c].propId \in row[2]
    ELSE IF b[c].kind = "any" THEN \E i \in DOMAIN b[c].args : CondTrue(b, b[c].args[i], row)
    ELSE \A i \in DOMAIN b[c].args : CondTrue(b, b[c].args[i], row)

\* obx_query_visit / obx_query_find: the rows all top-level conditions accept
obx_query_find(b, q) == {row \in Table : \A c \in q : CondTrue(b, c, row)}

\* -------------------------------------------------------------- applyTo
\* result of applyTo: the builder after the native calls made, the condition
\* handle returned, and whether an exception was thrown
Applied(b, c, threw) == [cqb |-> b, cond |-> c, threw |-> threw]

\* QC...::applyTo: one native condition call for the leaf; isRoot is unused
QC_applyTo(h, x, b, isRoot) ==
    LET r == obx_qb_leaf(b, h[x].propId) IN Applied(r.cqb, r.cond, FALSE)

\* faulty variant: the root OR group is left uncombined like the root AND group
QCGroup_combine_RootOrImplicit(isOr, isRoot, b, ids) ==
    IF isRoot THEN Applied(b, 0, FALSE)
    ELSE IF isOr THEN LET r == obx_qb_any(b, ids) IN Applied(r.cqb, r.cond, FALSE)
    ELSE LET r == obx_qb_all(b, ids) IN Applied(r.cqb, r.cond, FALSE)

\* QCGroup::applyTo after the loop: the root AND group is implicit, any other
\* group is combined with obx_qb_any (OR) or obx_qb_all (AND)
QCGroup_combine(isOr, isRoot, b, ids) ==
    IF isRoot /\ ~isOr THEN Applied(b, 0, FALSE)
    ELSE IF isOr THEN LET r == obx_qb_any(b, ids) IN Applied(r.cqb, r.cond, FALSE)
    ELSE LET r == obx_qb_all(b, ids) IN Applied(r.cqb, r.cond, FALSE)

RECURSIVE applyTo(_, _, _, _)
RECURSIVE applyChildren(_, _, _, _, _)

RECURSIVE applyChildren_AsRoot(_, _, _, _, _)
\* faulty variant: the children are applied with isRoot = true
applyChildren_AsRoot(h, cs, i, b, ids) ==
    IF i > Len(cs) THEN Applied(b, ids, FALSE)
    ELSE LET r == applyTo(h, cs[i], b, TRUE)
         IN  IF r.threw THEN Applied(r.cqb, ids, TRUE)
             ELSE applyChildren_AsRoot(h, cs, i + 1, r.cqb, Append(ids, r.cond))

\* the loop of QCGroup::applyTo over conditions_[i..]: each child is applied
\* with isRoot = false and its handle collected; an exception ends the loop
applyChildren(h, cs, i, b, ids) ==
    IF i > Len(cs) THEN Applied(b, ids, FALSE)
    ELSE LET r == applyTo(h, cs[i], b, FALSE)
         IN  IF r.threw THEN Applied(r.cqb, ids, TRUE)
             ELSE applyChildren(h, cs, i + 1, r.cqb, Append(ids, r.cond))

\* QCGroup::applyTo
QCGroup_applyTo(h, x, b, isRoot) ==
    IF Len(h[x].conditions) = 1 THEN applyTo(h, h[x].conditions[1], b, isRoot)
    ELSE IF h[x].conditions = <<>> THEN Applied(b, 0, TRUE)
    ELSE LET r == applyChildren(h, h[x].conditions, 1, b, <<>>)
         IN  IF r.threw THEN Applied(r.cqb, 0, TRUE)
             ELSE QCGroup_combine(h[x].isOr, isRoot, r.cqb, r.cond)

\* internalApplyCondition: virtual dispatch of applyTo
applyTo(h, x, b, isRoot) ==
    IF h[x].kind = "QCGroup" THEN QCGroup_applyTo(h, x, b, isRoot)
    ELSE QC_applyTo(h, x, b, isRoot)

NoWith == [x |-> 0, cond |-> 0, threw |-> FALSE]

InitQB ==
    /\ bphase = "conditions"
    /\ cqb = <<>>
    /\ bwith = NoWith
    /\ cquery = {}
    /\ found = {}

\* the conditions the program hands to with(): the one it built last, the
\* left operand of that combine, or a leaf before any combine (every held
\* object is one of these in some state)
WithArgs ==
    IF qops = 0 THEN qlocals ELSE {qlast.res, qlast.lhs}

\* QueryBuilderBase::with(condition): internalApplyCondition(condition, cqb, true)
With ==
    \E x \in WithArgs :
        /\ bphase = "conditions"
        /\ LET r == applyTo(qheap, x, cqb, TRUE)
           IN  /\ cqb' = r.cqb
               /\ bwith' = [x |-> x, cond |-> r.cond, threw |-> r.threw]
               /\ bphase' = IF r.threw THEN "failed" ELSE "applied"
        /\ UNCHANGED <<cquery, found>>
        /\ UNCHANGED <<varsQC, varsTx, varsRun, varsExt>>

\* QueryBuilder::build() on the root builder: Query(store_, cQueryBuilder_)
Build ==
    /\ bphase = "applied"
    /\ cquery' = obx_query(cqb)
    /\ bphase' = "built"
    /\ UNCHANGED <<cqb, bwith, found>>
    /\ UNCHANGED <<varsQC, varsTx, varsRun, varsExt>>

\* Query::find(): visits the query and collects the rows
Find ==
    /\ bphase = "built"
    /\ found' = obx_query_find(cqb, cquery)
    /\ bphase' = "found"
    /\ UNCHANGED <<cqb, bwith, cquery>>
    /\ UNCHANGED <<varsQC, varsTx, varsRun, varsExt>>

NextQuery == NextQC \/ With \/ Build \/ Find

\* --------------------------------------------- native transactions
\* obx_err values
OBX_SUCCESS == "OBX_SUCCESS"
OBX_ERROR_ILLEGAL_STATE == "OBX_ERROR_ILLEGAL_STATE"
OBX_ERROR_ILLEGAL_ARGUMENT == "OBX_ERROR_ILLEGAL_ARGUMENT"
OBX_ERROR_SHUTTING_DOWN == "OBX_ERROR_SHUTTING_DOWN"
\* an error code that has no exception class of its own
OBX_ERROR_STORAGE_GENERAL == "OBX_ERROR_STORAGE_GENERAL"

\* internal::throwError: the exception class thrown for an obx_err
throwError(err) ==
    IF err = OBX_SUCCESS \/ err = OBX_ERROR_ILLEGAL_STATE THEN "IllegalStateException"
    ELSE IF err = OBX_ERROR_ILLEGAL_ARGUMENT THEN "IllegalArgumentException"
    ELSE IF err = OBX_ERROR_SHUTTING_DOWN THEN "ShuttingDownException"
    ELSE "DbException"

\* internal::checkErrOrThrow: nothing is thrown for OBX_SUCCESS
checkErrOrThrow(err) == IF err = OBX_SUCCESS THEN "none" ELSE throwError(err)

NRet(n, txn, err) == [nat |-> n, txn |-> txn, err |-> err]

\* obx_txn_write / obx_txn_read: the first transaction on the thread is the
\* top level one; a later one is an inner transaction of it, and a write
\* transaction cannot be started inside a read transaction (returns NULL)
obx_txn_begin(n, mode) ==
    LET h == Len(n.txn) + 1
        top == n.stack = <<>>
    IN  IF ~top /\ mode = "WRITE" /\ n.txn[n.stack[1]].mode = "READ"
        THEN NRet(n, 0, OBX_ERROR_ILLEGAL_STATE)
        ELSE NRet([n EXCEPT !.txn = Append(@, [mode |-> mode, open |-> TRUE, top |-> top,
                                                success |-> FALSE, calls |-> 0,
                                                root |-> IF top THEN h ELSE n.stack[1]]),
                            !.stack = Append(@, h),
                            !.failed = IF top THEN FALSE ELSE @,
                            !.pending = IF top THEN {} ELSE @],
                  h, OBX_SUCCESS)

Pop(st) == SubSeq(st, 1, Len(st) - 1)

\* obx_txn_success: ends a write transaction successfully. An inner one only
\* records its success; the top level one commits when no inner write
\* transaction ended without success, and otherwise commits nothing and
\* reports e. A read transaction is ended with an error.
obx_txn_success(n, h, e) ==
    IF h = 0 THEN NRet(n, h, OBX_ERROR_ILLEGAL_ARGUMENT)
    ELSE IF ~n.txn[h].open
    THEN NRet([n EXCEPT !.txn[h].calls = @ + 1], h, OBX_ERROR_ILLEGAL_STATE)
    ELSE LET ended == [n EXCEPT !.txn[h].open = FALSE, !.stack = Pop(@),
                                !.txn[h].calls = @ + 1]
         IN  IF n.txn[h].mode = "READ" THEN NRet(ended, h, OBX_ERROR_ILLEGAL_STATE)
             ELSE IF ~n.txn[h].top
                  THEN NRet([ended EXCEPT !.txn[h].success = TRUE], h, OBX_SUCCESS)
             ELSE IF n.failed
                  THEN NRet([ended EXCEPT !.pending = {}], h, e)
             ELSE NRet([ended EXCEPT !.txn[h].success = TRUE,
                                     !.committed = @ \cup n.pending,
                                     !.pending = {},
                                     !.commits = @ + 1], h, OBX_SUCCESS)

\* obx_txn_close: ends a transaction without success. Closing an inner write
\* transaction makes the top level one fail; closing the top level one rolls
\* back what is pending. Closing NULL does nothing.
obx_txn_close(n, h) ==
    IF h = 0 THEN NRet(n, h, OBX_SUCCESS)
    ELSE IF ~n.txn[h].open
    THEN NRet([n EXCEPT !.txn[h].calls = @ + 1], h, OBX_ERROR_ILLEGAL_STATE)
    ELSE LET ended == [n EXCEPT !.txn[h].open = FALSE, !.stack = Pop(@),
                                !.txn[h].calls = @ + 1]
         IN  IF n.txn[h].top THEN NRet([ended EXCEPT !.pending = {}], h, OBX_SUCCESS)
             ELSE NRet([ended EXCEPT !.failed = @ \/ n.txn[h].mode = "WRITE"], h, OBX_SUCCESS)

\* a put through a box or cursor lands in the running top level write
\* transaction; the object is recorded with the innermost open transaction
obx_put(n, id) ==
    [n EXCEPT !.pending = @ \cup {[id |-> id, scope |-> n.stack[Len(n.stack)],
                                   root |-> n.stack[1]]}]

\* ------------------------------------------------------ class Transaction
\* result of a Transaction method: the object, the engine, the exception
TRet(t, n, threw) == [t |-> t, nat |-> n, threw |-> threw]

\* faulty variant: the constructor does not check the handle it was given
Transaction_ctor_Unchecked(n, mode) ==
    LET r == obx_txn_begin(n, mode)
    IN  TRet([mode |-> mode, cTxn |-> r.txn, alive |-> TRUE], r.nat, "none")

\* Transaction::Transaction(store, mode): checkPtrOrThrow(cTxn_)
Transaction_ctor(n, mode) ==
    LET r == obx_txn_begin(n, mode)
    IN  TRet([mode |-> mode, cTxn |-> r.txn, alive |-> r.txn # 0], r.nat,
             IF r.txn = 0 THEN throwError(r.err) ELSE "none")

\* faulty variant: success() passes its handle on without OBX_VERIFY_STATE
Transaction_success_NoVerify(t, n, e) ==
    LET r == obx_txn_success(n, t.cTxn, e)
    IN  TRet([t EXCEPT !.cTxn = 0], r.nat, checkErrOrThrow(r.err))

\* faulty variant: success() ignores what obx_txn_success returns
Transaction_success_Unchecked(t, n, e) ==
    IF t.cTxn = 0 THEN TRet(t, n, "IllegalStateException")
    ELSE LET r == obx_txn_success(n, t.cTxn, e)
         IN  TRet([t EXCEPT !.cTxn = 0], r.nat, "none")

\* Transaction::success(): OBX_VERIFY_STATE(txn); cTxn_ = nullptr;
\* checkErrOrThrow(obx_txn_success(txn))
Transaction_success(t, n, e) ==
    IF t.cTxn = 0 THEN TRet(t, n, "IllegalStateException")
    ELSE LET r == obx_txn_success(n, t.cTxn, e)
         IN  TRet([t EXCEPT !.cTxn = 0], r.nat,
                  checkErrOrThrow(r.err))

\* faulty variant: closing ends the native transaction with obx_txn_success
Transaction_closeNoThrow_Commits(t, n) ==
    LET r == obx_txn_success(n, t.cTxn, OBX_SUCCESS)
    IN  [t |-> [t EXCEPT !.cTxn = 0], nat |-> r.nat, err |-> OBX_SUCCESS]

\* faulty variant: closeNoThrow() keeps cTxn_
Transaction_closeNoThrow_KeepsHandle(t, n) ==
    LET r == obx_txn_close(n, t.cTxn)
    IN  [t |-> t, nat |-> r.nat, err |-> r.err]

\* faulty variant: closing ends the transaction of the top level scope
Transaction_closeNoThrow_ClosesTop(t, n) ==
    LET r == obx_txn_close(n, IF t.cTxn = 0 THEN 0 ELSE n.stack[1])
    IN  [t |-> [t EXCEPT !.cTxn = 0], nat |-> r.nat, err |-> r.err]

\* Transaction::closeNoThrow(): cTxn_ = nullptr; return obx_txn_close(txnToClose)
Transaction_closeNoThrow(t, n) ==
    LET r == obx_txn_close(n, t.cTxn)
    IN  [t |-> [t EXCEPT !.cTxn = 0], nat |-> r.nat, err |-> r.err]

\* Transaction::close(): checkErrOrThrow(closeNoThrow())
Transaction_close(t, n) ==
    LET r == Transaction_closeNoThrow(t, n)
    IN  TRet(r.t, r.nat, checkErrOrThrow(r.err))

\* faulty variant: the destructor ends the transaction successfully
Transaction_dtor_Success(t, n) ==
    LET r == obx_txn_success(n, t.cTxn, OBX_SUCCESS)
    IN  TRet([t EXCEPT !.cTxn = 0, !.alive = FALSE], r.nat, "none")

\* Transaction::~Transaction(): closeNoThrow(), never throws
Transaction_dtor(t, n) ==
    LET r == Transaction_closeNoThrow(t, n)
    IN  TRet([r.t EXCEPT !.alive = FALSE], r.nat, "none")

\* faulty variant: the move constructor leaves the source its handle
Transaction_move_KeepsSource(src) ==
    [t |-> [mode |-> src.mode, cTxn |-> src.cTxn, alive |-> TRUE], source |-> src]

\* Transaction(Transaction&& source): mode_(source.mode_),
\* cTxn_(source.cTxn_) { source.cTxn_ = nullptr; }
Transaction_move(src) ==
    [t |-> [mode |-> src.mode, cTxn |-> src.cTxn, alive |-> TRUE],
     source |-> [src EXCEPT !.cTxn = 0]]

\* Transaction::operator=(Transaction source): swaps mode_ and cTxn_ with the
\* by-value parameter; the parameter is destroyed when the call returns, which
\* closes the handle this object held before
Transaction_assign(t, source, n) ==
    LET swapped == [source EXCEPT !.mode = t.mode, !.cTxn = t.cTxn]
        d == Transaction_dtor(swapped, n)
    IN  TRet([t EXCEPT !.mode = source.mode, !.cTxn = source.cTxn], d.nat, d.threw)

InitTx ==
    /\ txs = <<>>
    /\ nat = [txn |-> <<>>, stack |-> <<>>, failed |-> FALSE,
              pending |-> {}, committed |-> {}, commits |-> 0]
    /\ tsucc = {}
    /\ tlast = [op |-> "none", obj |-> 0, txn |-> 0, threw |-> "none"]
    /\ seen = {}
    /\ nputs = 0
    /\ tgone = <<>>
    /\ nmoves = 0

\* the innermost open native transaction (0: none)
Innermost == IF nat.stack = <<>> THEN 0 ELSE nat.stack[Len(nat.stack)]

\* transactions are ended in stack order: a method that can end a native
\* transaction is called on an object that gave up its handle before or on
\* the object of the innermost open transaction
InOrder(i) == txs[i].alive /\ (tgone[i] # "no" \/ txs[i].cTxn = Innermost)

\* Store::tx(mode) / txRead() / txWrite(), Transaction tx(store, mode)
TxOpen ==
    \E mode \in {"READ", "WRITE"} :
        /\ Len(txs) < MaxTx
        /\ LET r == Transaction_ctor(nat, mode)
           IN  /\ txs' = Append(txs, r.t)
               /\ nat' = r.nat
               /\ tlast' = [op |-> "open", obj |-> Len(txs) + 1, txn |-> r.t.cTxn,
                            threw |-> r.threw]
               /\ tgone' = Append(tgone, IF r.t.cTxn = 0 THEN "failed" ELSE "no")
        /\ UNCHANGED <<tsucc, seen, nputs, nmoves>>
        /\ UNCHANGED <<varsQC, varsQB, varsRun, varsExt>>

\* tx.success(); e is what the engine reports for a suppressed commit
TxSuccess ==
    \E i \in DOMAIN txs, e \in {OBX_SUCCESS, OBX_ERROR_ILLEGAL_STATE} :
        /\ InOrder(i)
        /\ LET r == Transaction_success(txs[i], nat, e)
           IN  /\ txs' = [txs EXCEPT ![i] = r.t]
               /\ nat' = r.nat
               /\ tlast' = [op |-> "success", obj |-> i, txn |-> txs[i].cTxn,
                            threw |-> r.threw]
        /\ tsucc' = tsucc \cup ({txs[i].cTxn} \ {0})
        /\ tgone' = [tgone EXCEPT ![i] = IF txs[i].cTxn # 0 THEN "success" ELSE @]
        /\ UNCHANGED <<seen, nputs, nmoves>>
        /\ UNCHANGED <<varsQC, varsQB, varsRun, varsExt>>

\* tx.close()
TxClose ==
    \E i \in DOMAIN txs :
        /\ InOrder(i)
        /\ LET r == Transaction_close(txs[i], nat)
           IN  /\ txs' = [txs EXCEPT ![i] = r.t]
               /\ nat' = r.nat
               /\ tlast' = [op |-> "close", obj |-> i, txn |-> txs[i].cTxn,
                            threw |-> r.threw]
        /\ tgone' = [tgone EXCEPT ![i] = IF txs[i].cTxn # 0 THEN "close" ELSE @]
        /\ UNCHANGED <<tsucc, seen, nputs, nmoves>>
        /\ UNCHANGED <<varsQC, varsQB, varsRun, varsExt>>

\* the Transaction object goes out of scope
TxDestroy ==
    \E i \in DOMAIN txs :
        /\ InOrder(i)
        /\ LET r == Transaction_dtor(txs[i], nat)
           IN  /\ txs' = [txs EXCEPT ![i] = r.t]
               /\ nat' = r.nat
               /\ tlast' = [op |-> "destroy", obj |-> i, txn |-> txs[i].cTxn,
                            threw |-> r.threw]
        /\ tgone' = [tgone EXCEPT ![i] = IF txs[i].cTxn # 0 THEN "close" ELSE @]
        /\ UNCHANGED <<tsucc, seen, nputs, nmoves>>
        /\ UNCHANGED <<varsQC, varsQB, varsRun, varsExt>>

\* Transaction b(std::move(a)): a new object takes the handle of txs[j]
TxMove ==
    \E j \in DOMAIN txs :
        /\ Len(txs) < MaxTx
        /\ nmoves < MaxMoves
        /\ txs[j].alive
        /\ LET m == Transaction_move(txs[j])
           IN  /\ txs' = Append([txs EXCEPT ![j] = m.source], m.t)
               /\ tlast' = [op |-> "move", obj |-> Len(txs) + 1, txn |-> m.t.cTxn,
                            threw |-> "none"]
               /\ tgone' = Append([tgone EXCEPT ![j] = "moved"],
                                  IF m.t.cTxn # 0 THEN "no" ELSE "moved")
        /\ nmoves' = nmoves + 1
        /\ UNCHANGED <<nat, tsucc, seen, nputs>>
        /\ UNCHANGED <<varsQC, varsQB, varsRun, varsExt>>

\* a = std::move(b), a = txs[i], b = txs[j] (i = j: self-assignment): the
\* parameter of operator= is move-constructed from b, then swapped with a,
\* then destroyed
TxAssign ==
    \E i \in DOMAIN txs, j \in DOMAIN txs :
        /\ txs[i].alive /\ txs[j].alive
        /\ nmoves < MaxMoves
        /\ LET m    == Transaction_move(txs[j])
               txs1 == [txs EXCEPT ![j] = m.source]
               old  == txs1[i].cTxn
               r    == Transaction_assign(txs1[i], m.t, nat)
           IN  /\ i = j \/ InOrder(i)
               /\ txs' = [txs1 EXCEPT ![i] = r.t]
               /\ nat' = r.nat
               /\ tlast' = [op |-> "assign", obj |-> i, txn |-> old, threw |-> r.threw]
               /\ tgone' = [k \in DOMAIN tgone |->
                              IF k = i THEN (IF r.t.cTxn # 0 THEN "no" ELSE "moved")
                              ELSE IF k = j THEN "moved"
                              ELSE tgone[k]]
        /\ nmoves' = nmoves + 1
        /\ UNCHANGED <<tsucc, seen, nputs>>
        /\ UNCHANGED <<varsQC, varsQB, varsRun, varsExt>>

\* an object is put while a write transaction is running on the thread
TxPut ==
    /\ nputs < MaxPuts
    /\ nat.stack # <<>>
    /\ nat.txn[nat.stack[1]].mode = "WRITE"
    /\ nat.txn[Innermost].mode = "WRITE"
    /\ nat' = obx_put(nat, nputs + 1)
    /\ nputs' = nputs + 1
    /\ tlast' = [op |-> "put", obj |-> 0, txn |-> Innermost, threw |-> "none"]
    /\ UNCHANGED <<txs, tsucc, seen, tgone, nmoves>>
    /\ UNCHANGED <<varsQC, varsQB, varsRun, varsExt>>

\* an independent read: a read Transaction opened while no transaction is
\* running on the thread, reading all objects, then destroyed
TxReadAll ==
    /\ nat.stack = <<>>
    /\ seen' = nat.committed
    /\ tlast' = [op |-> "read", obj |-> 0, txn |-> 0, threw |-> "none"]
    /\ UNCHANGED <<txs, nat, tsucc, nputs, tgone, nmoves>>
    /\ UNCHANGED <<varsQC, varsQB, varsRun, varsExt>>

NextTx == TxOpen \/ TxSuccess \/ TxClose \/ TxDestroy \/ TxPut \/ TxReadAll

NextTxMove == TxOpen \/ TxSuccess \/ TxClose \/ TxDestroy \/ TxMove \/ TxAssign

\* ------------------------------------ native typed builder and query
OBX_NOT_FOUND == "OBX_NOT_FOUND"

OBX_ERROR_PROPERTY_TYPE_MISMATCH == "OBX_ERROR_PROPERTY_TYPE_MISMATCH"

\* the properties the program puts conditions on
Props == {"createdAt", "priority"}

\* the literals, offsets and limits the program uses
Vals == 0..MaxVal

\* the condition the program creates on a property:
\* createdAt.greaterThan(v), priority.lessThan(v)
OpOf(p) == IF p = "createdAt" THEN "Greater" ELSE "Less"

\* the stored objects, in id order: every combination of the two properties
\* over 0..MaxVal+1
Rows ==
    LET n == MaxVal + 2
    IN  [id \in 1..(n * n) |->
            [id |-> id, createdAt |-> (id - 1) \div n, priority |-> (id - 1) % n]]

\* a new native builder: no condition, no error, no condition call after an
\* error
NewBuilder(root) == [root |-> root, conds |-> <<>>, err |-> OBX_SUCCESS, late |-> 0]

\* obx_qb_link_property / obx_qb_backlink_property / obx_qb_link_standalone:
\* a new builder that is not a root builder
obx_qb_link(bs) == Append(bs, NewBuilder(FALSE))

\* obx_qb_equals_int, obx_qb_less_than_int, obx_qb_greater_than_int: a new
\* condition of builder b
obx_qb_int(bs, b, propId, op, value) ==
    [bs EXCEPT ![b].conds = Append(@, [propId |-> propId, op |-> op, value |-> value]),
               ![b].late = IF bs[b].err = OBX_SUCCESS THEN @ ELSE @ + 1]

\* obx_qb_equals_string on a property that is not a string: no condition (0);
\* the builder stores the error if it has none yet
obx_qb_equals_string(bs, b, propId) ==
    [cqb |-> [bs EXCEPT ![b].err = IF @ = OBX_SUCCESS THEN OBX_ERROR_PROPERTY_TYPE_MISMATCH ELSE @,
                        ![b].late = IF bs[b].err = OBX_SUCCESS THEN @ ELSE @ + 1],
     cond |-> 0, last |-> OBX_ERROR_PROPERTY_TYPE_MISMATCH]

\* obx_qb_error_code: the error the builder stores
obx_qb_error_code(bs, b) == bs[b].err

\* obx_query on a builder: compiles the builder's conditions into a new query
\* with no offset and no limit (0)
obx_query_compile(bs, b) == [conds |-> bs[b].conds, offset |-> 0, limit |-> 0]

\* obx_query_offset / obx_query_limit: stored in the query
obx_query_offset(q, offset) == [q EXCEPT !.offset = offset]

obx_query_limit(q, limit) == [q EXCEPT !.limit = limit]

\* obx_query_param_int: sets the literal of the conditions on the property;
\* a property the query has no condition on is an error
obx_query_param_int(q, propId, value) ==
    IF \A i \in DOMAIN q.conds : q.conds[i].propId # propId
    THEN [q |-> q, err |-> OBX_NOT_FOUND]
    ELSE [q |-> [q EXCEPT !.conds = [i \in DOMAIN q.conds |->
                                        IF q.conds[i].propId = propId
                                        THEN [q.conds[i] EXCEPT !.value = value]
                                        ELSE q.conds[i]]],
          err |-> OBX_SUCCESS]

\* whether a compiled condition accepts a row
CondHolds(c, row) ==
    IF c.op = "Equal" THEN row[c.propId] = c.value
    ELSE IF c.op = "Less" THEN row[c.propId] < c.value
    ELSE row[c.propId] > c.value

\* the ids of the rows all conditions of the query accept, in id order
Matching(q) ==
    LET ok(id) == \A i \in DOMAIN q.conds : CondHolds(q.conds[i], Rows[id])
    IN  SelectSeq([id \in DOMAIN Rows |-> id], ok)

\* obx_query_find_ids: the matching ids after skipping offset of them, at
\* most limit of them; a limit of 0 is no limit
obx_query_find_ids(q) ==
    LET m == Matching(q)
        rest == SubSeq(m, q.offset + 1, Len(m))
    IN  IF q.limit = 0 \/ q.limit >= Len(rest) THEN rest ELSE SubSeq(rest, 1, q.limit)

\* ------------------------------------------ QueryBuilder, Query (typed)
\* QCInt64::applyTo: the native condition call for the operation
QCInt64_applyTo(bs, b, propId, op, value1) ==
    IF op \in {"Equal", "Less", "Greater"}
    THEN [cqb |-> obx_qb_int(bs, b, propId, op, value1), threw |-> "none"]
    ELSE [cqb |-> bs, threw |-> "IllegalStateException"]

\* QueryBuilderBase::equalsString(propertyId, value): throwLastError() when
\* the native call returns no condition
QueryBuilderBase_equalsString(bs, b, propId) ==
    LET r == obx_qb_equals_string(bs, b, propId)
    IN  [cqb |-> r.cqb, threw |-> IF r.cond = 0 THEN throwError(r.last) ELSE "none"]

\* QueryBuilder::linkedQB: QueryBuilder<LinkedEntityT>(store_, qb, false)
linkedQB(qb) == [cQueryBuilder |-> qb, isRoot |-> FALSE]

\* faulty variant: the constructor keeps the NULL obx_query returned
QueryBase_ctor_Unchecked(bs, cqs, qb, from) ==
    [q |-> <<[cQuery |-> IF obx_qb_error_code(bs, qb) # OBX_SUCCESS THEN 0 ELSE Len(cqs) + 1,
              from |-> from]>>,
     rcq |-> IF obx_qb_error_code(bs, qb) # OBX_SUCCESS THEN cqs
             ELSE Append(cqs, obx_query_compile(bs, qb)),
     threw |-> "none"]

\* QueryBase::QueryBase(store, qb): cQuery_(obx_query(qb)),
\* checkPtrOrThrow(cQuery_); obx_query gives NULL for a builder that stores an
\* error. The result is the Query object, the native queries and the exception
QueryBase_ctor(bs, cqs, qb, from) ==
    IF obx_qb_error_code(bs, qb) # OBX_SUCCESS
    THEN [q |-> <<>>, rcq |-> cqs, threw |-> throwError(obx_qb_error_code(bs, qb))]
    ELSE [q |-> <<[cQuery |-> Len(cqs) + 1, from |-> from]>>,
          rcq |-> Append(cqs, obx_query_compile(bs, qb)),
          threw |-> "none"]

\* faulty variant: build() does not verify isRoot_
QueryBuilder_build_NoVerify(bs, cqs, o, from) ==
    QueryBase_ctor(bs, cqs, o.cQueryBuilder, from)

\* QueryBuilder::build / QueryBuilderBase::buildBase:
\* OBX_VERIFY_STATE(isRoot_); return Query(store_, cQueryBuilder_)
QueryBuilder_build(bs, cqs, o, from) ==
    IF ~o.isRoot THEN [q |-> <<>>, rcq |-> cqs, threw |-> "IllegalStateException"]
    ELSE QueryBase_ctor(bs, cqs, o.cQueryBuilder, from)

\* QueryBase::offset: checkErrOrThrow(obx_query_offset(cQuery_, offset))
Query_offset(cqs, o, offset) ==
    [cqs EXCEPT ![o.cQuery] = obx_query_offset(@, offset)]

\* faulty variant: limit() sets the offset
Query_limit_AsOffset(cqs, o, limit) ==
    [cqs EXCEPT ![o.cQuery] = obx_query_offset(@, limit)]

\* QueryBase::limit: checkErrOrThrow(obx_query_limit(cQuery_, limit))
Query_limit(cqs, o, limit) ==
    [cqs EXCEPT ![o.cQuery] = obx_query_limit(@, limit)]

\* faulty variant: setParameter always addresses the query's first condition
Query_setParameter_First(cqs, o, propId, value) ==
    LET q == cqs[o.cQuery]
        r == obx_query_param_int(q, IF q.conds = <<>> THEN propId ELSE q.conds[1].propId, value)
    IN  [rcq |-> [cqs EXCEPT ![o.cQuery] = r.q], threw |-> checkErrOrThrow(r.err)]

\* faulty variant: setParameter drops the error of the native call
Query_setParameter_Unchecked(cqs, o, propId, value) ==
    LET r == obx_query_param_int(cqs[o.cQuery], propId, value)
    IN  [rcq |-> [cqs EXCEPT ![o.cQuery] = r.q], threw |-> "none"]

\* QueryBase::setParameter(entityId, propertyId, int64_t value):
\* checkErrOrThrow(obx_query_param_int(cQuery_, entityId, propertyId, value))
Query_setParameter(cqs, o, propId, value) ==
    LET r == obx_query_param_int(cqs[o.cQuery], propId, value)
    IN  [rcq |-> [cqs EXCEPT ![o.cQuery] = r.q], threw |-> checkErrOrThrow(r.err)]

\* QueryBase::findIds: idVectorOrThrow(obx_query_find_ids(cQuery_))
Query_findIds(cqs, o) == obx_query_find_ids(cqs[o.cQuery])

\* Box::query(): one root QueryBuilder over a new native builder
InitRun ==
    /\ rqbs = <<[cQueryBuilder |-> 1, isRoot |-> TRUE]>>
    /\ rcqb = <<NewBuilder(TRUE)>>
    /\ rqs = <<>>
    /\ rcq = <<>>
    /\ rlast = [op |-> "none", obj |-> 0, prop |-> "", arg |-> 0, threw |-> "none"]
    /\ rfound = <<>>
    /\ rdirty = [offset |-> FALSE, limit |-> FALSE]

\* qb.link(rel) / qb.backlink(rel) on any builder
RunLink ==
    \E b \in DOMAIN rqbs :
        /\ Len(rqbs) < MaxBuilders
        /\ rcqb' = obx_qb_link(rcqb)
        /\ rqbs' = Append(rqbs, linkedQB(Len(rcqb) + 1))
        /\ rlast' = [op |-> "link", obj |-> b, prop |-> "", arg |-> 0, threw |-> "none"]
        /\ UNCHANGED <<rqs, rcq, rfound, rdirty>>
        /\ UNCHANGED <<varsQC, varsQB, varsTx, varsExt>>

\* qb.with(property.greaterThan(v)) / qb.with(property.lessThan(v)) on the
\* root builder before it is built, one condition per property
RunWith ==
    \E p \in Props, v \in Vals :
        /\ rqs = <<>>
        /\ \A i \in DOMAIN rcqb[1].conds : rcqb[1].conds[i].propId # p
        /\ LET r == QCInt64_applyTo(rcqb, rqbs[1].cQueryBuilder, p, OpOf(p), v)
           IN  /\ rcqb' = r.cqb
               /\ rlast' = [op |-> "with", obj |-> 1, prop |-> p, arg |-> v, threw |-> r.threw]
        /\ UNCHANGED <<rqbs, rqs, rcq, rfound, rdirty>>
        /\ UNCHANGED <<varsQC, varsQB, varsTx, varsExt>>

\* qb.equalsString(property, "aaa") on the root builder, the property being
\* a long
RunEqualsString ==
    \E p \in Props :
        /\ rcqb[1].late < MaxLate
        /\ LET r == QueryBuilderBase_equalsString(rcqb, rqbs[1].cQueryBuilder, p)
           IN  /\ rcqb' = r.cqb
               /\ rlast' = [op |-> "equalsString", obj |-> 1, prop |-> p, arg |-> 0,
                            threw |-> r.threw]
        /\ UNCHANGED <<rqbs, rqs, rcq, rfound, rdirty>>
        /\ UNCHANGED <<varsQC, varsQB, varsTx, varsExt>>

\* qb.build() on the QueryBuilder object b
Built(b) ==
    LET r == QueryBuilder_build(rcqb, rcq, rqbs[b], b)
    IN  /\ rqs' = rqs \o r.q
        /\ rcq' = r.rcq
        /\ rlast' = [op |-> "build", obj |-> b, prop |-> "", arg |-> 0, threw |-> r.threw]
        /\ UNCHANGED <<rqbs, rcqb, rfound, rdirty>>
        /\ UNCHANGED <<varsQC, varsQB, varsTx, varsExt>>

\* build() on any builder, also on one that was built before
RunBuild ==
    \E b \in DOMAIN rqbs : Len(rqs) < MaxQueries /\ Built(b)

\* build() while the program holds no Query yet
RunBuildFirst ==
    \E b \in DOMAIN rqbs : rqs = <<>> /\ Built(b)

\* query.offset(n)
RunOffset ==
    \E q \in DOMAIN rqs, n \in Vals :
        /\ rcq' = Query_offset(rcq, rqs[q], n)
        /\ rlast' = [op |-> "offset", obj |-> q, prop |-> "", arg |-> n, threw |-> "none"]
        /\ rdirty' = [rdirty EXCEPT !.offset = @ \/ n # 0]
        /\ UNCHANGED <<rqbs, rcqb, rqs, rfound>>
        /\ UNCHANGED <<varsQC, varsQB, varsTx, varsExt>>

\* query.limit(n)
RunLimit ==
    \E q \in DOMAIN rqs, n \in Vals :
        /\ rcq' = Query_limit(rcq, rqs[q], n)
        /\ rlast' = [op |-> "limit", obj |-> q, prop |-> "", arg |-> n, threw |-> "none"]
        /\ rdirty' = [rdirty EXCEPT !.limit = @ \/ n # 0]
        /\ UNCHANGED <<rqbs, rcqb, rqs, rfound>>
        /\ UNCHANGED <<varsQC, varsQB, varsTx, varsExt>>

\* query.setParameter(property, value)
RunSetParameter ==
    \E q \in DOMAIN rqs, p \in Props, v \in Vals :
        /\ LET r == Query_setParameter(rcq, rqs[q], p, v)
           IN  /\ rcq' = r.rcq
               /\ rlast' = [op |-> "setParameter", obj |-> q, prop |-> p, arg |-> v,
                            threw |-> r.threw]
        /\ UNCHANGED <<rqbs, rcqb, rqs, rfound, rdirty>>
        /\ UNCHANGED <<varsQC, varsQB, varsTx, varsExt>>

\* query.findIds()
RunFindIds ==
    \E q \in DOMAIN rqs :
        /\ rfound' = Query_findIds(rcq, rqs[q])
        /\ rlast' = [op |-> "findIds", obj |-> q, prop |-> "", arg |-> 0, threw |-> "none"]
        /\ UNCHANGED <<rqbs, rcqb, rqs, rcq, rdirty>>
        /\ UNCHANGED <<varsQC, varsQB, varsTx, varsExt>>

NextBuild == RunLink \/ RunWith \/ RunBuild

NextQbError == RunWith \/ RunEqualsString \/ RunBuild

NextLimit == RunWith \/ RunBuildFirst \/ RunOffset \/ RunLimit \/ RunFindIds

NextParam == RunWith \/ RunBuildFirst \/ RunSetParameter \/ RunFindIds

\* ------------------------------------------------- query execution
\* Exception::code() of the exception thrown for err: the classes with a
\* fixed code return it, DbException returns the code it was given
Exception_code(class, err) ==
    IF class = "IllegalArgumentException" THEN OBX_ERROR_ILLEGAL_ARGUMENT
    ELSE IF class = "IllegalStateException" THEN OBX_ERROR_ILLEGAL_STATE
    ELSE IF class = "ShuttingDownException" THEN OBX_ERROR_SHUTTING_DOWN
    ELSE err

\* what an execution call gives its caller: the objects handed over (ids),
\* the number returned, and the exception thrown
XRet(items, n, err) ==
    [items |-> items, n |-> n,
     threw |-> checkErrOrThrow(err),
     code |-> IF err = OBX_SUCCESS THEN OBX_SUCCESS
              ELSE Exception_code(throwError(err), err)]

\* the failures the native engine reports
EngineErrs ==
    {OBX_ERROR_ILLEGAL_ARGUMENT, OBX_ERROR_ILLEGAL_STATE, OBX_ERROR_SHUTTING_DOWN,
     OBX_ERROR_STORAGE_GENERAL}

\* the matching objects that are still stored
Stored(q, removed) == SelectSeq(obx_query_find_ids(q), LAMBDA id : id \notin removed)

\* obx_query_visit: hands the matching objects to the visitor one by one; a
\* failure (fault) ends the walk after n objects and is returned
obx_query_visit_ids(q, removed, fault, n) ==
    LET m == Stored(q, removed)
    IN  IF fault = OBX_SUCCESS THEN [items |-> m, err |-> OBX_SUCCESS]
        ELSE [items |-> SubSeq(m, 1, n), err |-> fault]

\* obx_query_find_ids: the id array, or NULL (<<>> and the error as the
\* thread's last error code) on a failure
obx_query_find_ids_or_null(q, removed, fault) ==
    IF fault = OBX_SUCCESS THEN [cIds |-> Stored(q, removed), null |-> FALSE, last |-> OBX_SUCCESS]
    ELSE [cIds |-> <<>>, null |-> TRUE, last |-> fault]

\* obx_query_count: the number of matching objects, or an error
obx_query_count(q, removed, fault) ==
    [result |-> IF fault = OBX_SUCCESS THEN Len(Stored(q, removed)) ELSE 0, err |-> fault]

\* obx_query_remove: removes the matching objects in one transaction; a
\* failure removes none
obx_query_remove(q, removed, fault) ==
    IF fault = OBX_SUCCESS
    THEN [removed |-> removed \cup Range(Stored(q, removed)),
          result |-> Len(Stored(q, removed)), err |-> OBX_SUCCESS]
    ELSE [removed |-> removed, result |-> 0, err |-> fault]

\* Query::find: OBX_VERIFY_STATE(cQuery_); obx_query_visit(cQuery_, visit,
\* &visitor); return visitor.items -- the obx_err of the walk is not read
Query_find(cqs, o, removed, fault, n) ==
    IF o.cQuery = 0 THEN XRet(<<>>, 0, OBX_ERROR_ILLEGAL_STATE)
    ELSE LET r == obx_query_visit_ids(cqs[o.cQuery], removed, fault, n)
         IN  XRet(r.items, Len(r.items), OBX_SUCCESS)

\* QueryBase::visit: OBX_VERIFY_STATE(cQuery_); checkErrOrThrow(obx_query_visit(..))
Query_visit(cqs, o, removed, fault, n) ==
    IF o.cQuery = 0 THEN XRet(<<>>, 0, OBX_ERROR_ILLEGAL_STATE)
    ELSE LET r == obx_query_visit_ids(cqs[o.cQuery], removed, fault, n)
         IN  XRet(r.items, Len(r.items), r.err)

\* internal::idVectorOrThrow: throwLastError() for NULL, else the ids
idVectorOrThrow(r) ==
    IF r.null THEN [XRet(<<>>, 0, r.last) EXCEPT !.threw = throwError(r.last)]
    ELSE XRet(r.cIds, Len(r.cIds), OBX_SUCCESS)

\* QueryBase::findIds with the failures of obx_query_find_ids
Query_findIdsOrThrow(cqs, o, removed, fault) ==
    idVectorOrThrow(obx_query_find_ids_or_null(cqs[o.cQuery], removed, fault))

\* QueryBase::count: checkErrOrThrow(obx_query_count(cQuery_, &result))
Query_count(cqs, o, removed, fault) ==
    LET r == obx_query_count(cqs[o.cQuery], removed, fault)
    IN  XRet(<<>>, r.result, r.err)

\* QueryBase::remove: checkErrOrThrow(obx_query_remove(cQuery_, &result))
Query_remove(cqs, o, removed, fault) ==
    LET r == obx_query_remove(cqs[o.cQuery], removed, fault)
    IN  [ret |-> XRet(<<>>, r.result, r.err), removed |-> r.removed]

InitExec ==
    /\ xlast = [op |-> "none", err |-> OBX_SUCCESS, ret |-> XRet(<<>>, 0, OBX_SUCCESS)]
    /\ xremoved = {}

\* the inputs of an execution call: the Query, what the native engine
\* reports, and how far a walk gets before a failure
ExecCall(op, q, fault, ret) ==
    /\ xlast' = [op |-> op, err |-> fault, ret |-> ret]
    /\ UNCHANGED <<varsQC, varsQB, varsTx, varsRun, varsCur, varsBox, varsConc>>

\* query.find()
ExecFind ==
    \E q \in DOMAIN rqs, fault \in {OBX_SUCCESS} \cup EngineErrs, n \in 0..Len(Rows) :
        /\ n <= Len(Stored(rcq[rqs[q].cQuery], xremoved))
        /\ fault = OBX_SUCCESS => n = 0
        /\ ExecCall("find", q, fault, Query_find(rcq, rqs[q], xremoved, fault, n))
        /\ UNCHANGED xremoved

\* query.visit(visitor, userData)
ExecVisit ==
    \E q \in DOMAIN rqs, fault \in {OBX_SUCCESS} \cup EngineErrs, n \in 0..Len(Rows) :
        /\ n <= Len(Stored(rcq[rqs[q].cQuery], xremoved))
        /\ fault = OBX_SUCCESS => n = 0
        /\ ExecCall("visit", q, fault, Query_visit(rcq, rqs[q], xremoved, fault, n))
        /\ UNCHANGED xremoved

\* query.findIds()
ExecFindIds ==
    \E q \in DOMAIN rqs, fault \in {OBX_SUCCESS} \cup EngineErrs :
        /\ ExecCall("findIds", q, fault, Query_findIdsOrThrow(rcq, rqs[q], xremoved, fault))
        /\ UNCHANGED xremoved

\* query.count()
ExecCount ==
    \E q \in DOMAIN rqs, fault \in {OBX_SUCCESS} \cup EngineErrs :
        /\ ExecCall("count", q, fault, Query_count(rcq, rqs[q], xremoved, fault))
        /\ UNCHANGED xremoved

\* query.remove()
ExecRemove ==
    \E q \in DOMAIN rqs, fault \in {OBX_SUCCESS} \cup EngineErrs :
        LET r == Query_remove(rcq, rqs[q], xremoved, fault)
        IN  /\ ExecCall("remove", q, fault, r.ret)
            /\ xremoved' = r.removed

NextExec ==
    RunWith \/ RunBuildFirst \/ ExecFind \/ ExecVisit \/ ExecFindIds \/ ExecCount \/ ExecRemove

\* ------------------------------------------------------ native cursors
\* obx_cursor(txn, entityId): a new cursor in the open transaction txn; NULL
\* (0) when txn is not an open transaction or the engine fails (fault)
obx_cursor(cs, n, txn, fault) ==
    IF txn = 0 \/ fault # OBX_SUCCESS THEN [curs |-> cs, cursor |-> 0,
                                            err |-> IF txn = 0 THEN OBX_ERROR_ILLEGAL_ARGUMENT ELSE fault]
    ELSE IF ~n.txn[txn].open THEN [curs |-> cs, cursor |-> 0, err |-> OBX_ERROR_ILLEGAL_STATE]
    ELSE [curs |-> Append(cs, [txn |-> txn, open |-> TRUE, closes |-> 0, orphan |-> FALSE]),
          cursor |-> Len(cs) + 1, err |-> OBX_SUCCESS]

\* obx_cursor_close: closes the cursor; NULL is ignored
obx_cursor_close(cs, c) ==
    IF c = 0 THEN cs ELSE [cs EXCEPT ![c].open = FALSE, ![c].closes = @ + 1]

\* the engine ended the native transaction h: a cursor of h that is still
\* open has lost its transaction
TxnEnded(cs, h) ==
    [k \in DOMAIN cs |->
        IF h # 0 /\ cs[k].txn = h /\ cs[k].open THEN [cs[k] EXCEPT !.orphan = TRUE] ELSE cs[k]]

\* -------------------------------------------------------- class CursorTx
\* result of a CursorTx method: the object, the engine, the cursors, the
\* exception
CRet(c, n, cs, threw) == [c |-> c, nat |-> n, curs |-> cs, threw |-> threw]

\* CursorTx::CursorTx(mode, store, entityId): tx_(store, mode),
\* cCursor_(obx_cursor(tx_.cPtr(), entityId)); checkPtrOrThrow(cCursor_).
\* When the constructor throws, the members constructed so far are destroyed.
CursorTx_ctor(n, cs, mode, fault) ==
    LET t == Transaction_ctor(n, mode)
    IN  IF t.threw # "none"
        THEN CRet([tx |-> t.t, cCursor |-> 0, alive |-> FALSE], t.nat, cs, t.threw)
        ELSE LET r == obx_cursor(cs, t.nat, t.t.cTxn, fault)
             IN  IF r.cursor = 0
                 THEN LET d == Transaction_dtor(t.t, t.nat)
                      IN  CRet([tx |-> d.t, cCursor |-> 0, alive |-> FALSE], d.nat,
                               TxnEnded(r.curs, t.t.cTxn), throwError(r.err))
                 ELSE CRet([tx |-> t.t, cCursor |-> r.cursor, alive |-> TRUE], t.nat,
                           r.curs, "none")

\* CursorTx(CursorTx&& source): tx_(std::move(source.tx_)),
\* cCursor_(source.cCursor_) { source.cCursor_ = nullptr; }
CursorTx_move(src) ==
    LET m == Transaction_move(src.tx)
    IN  [c |-> [tx |-> m.t, cCursor |-> src.cCursor, alive |-> TRUE],
         source |-> [src EXCEPT !.tx = m.source, !.cCursor = 0]]

\* faulty variant: the transaction is ended before the cursor is closed
CursorTx_commitAndClose_TxFirst(c, n, cs, e) ==
    IF c.cCursor = 0 THEN CRet(c, n, cs, "IllegalStateException")
    ELSE LET r == Transaction_success(c.tx, n, e)
         IN  CRet([c EXCEPT !.tx = r.t, !.cCursor = 0], r.nat,
                  obx_cursor_close(TxnEnded(cs, c.tx.cTxn), c.cCursor), r.threw)

\* faulty variant: commitAndClose() does not verify cCursor_
CursorTx_commitAndClose_NoVerify(c, n, cs, e) ==
    LET r == Transaction_success_NoVerify(c.tx, n, e)
    IN  CRet([c EXCEPT !.tx = r.t, !.cCursor = 0], r.nat,
             TxnEnded(obx_cursor_close(cs, c.cCursor), c.tx.cTxn), r.threw)

\* CursorTx::commitAndClose(): OBX_VERIFY_STATE(cCursor_);
\* obx_cursor_close(cCursor_); cCursor_ = nullptr; tx_.success()
CursorTx_commitAndClose(c, n, cs, e) ==
    IF c.cCursor = 0 THEN CRet(c, n, cs, "IllegalStateException")
    ELSE LET cs1 == obx_cursor_close(cs, c.cCursor)
             r   == Transaction_success(c.tx, n, e)
         IN  CRet([c EXCEPT !.tx = r.t, !.cCursor = 0], r.nat,
                  TxnEnded(cs1, c.tx.cTxn), r.threw)

\* faulty variant: destroying a CursorTx commits its transaction
CursorTx_dtor_Commits(c, n, cs) ==
    LET cs1 == obx_cursor_close(cs, c.cCursor)
        d   == Transaction_dtor_Success(c.tx, n)
    IN  CRet([c EXCEPT !.tx = d.t, !.alive = FALSE], d.nat, TxnEnded(cs1, c.tx.cTxn), "none")

\* CursorTx::~CursorTx() { obx_cursor_close(cCursor_); }, then the member
\* tx_ is destroyed
CursorTx_dtor(c, n, cs) ==
    LET cs1 == obx_cursor_close(cs, c.cCursor)
        d   == Transaction_dtor(c.tx, n)
    IN  CRet([c EXCEPT !.tx = d.t, !.alive = FALSE], d.nat, TxnEnded(cs1, c.tx.cTxn), "none")

InitCur ==
    /\ ctxs = <<>>
    /\ curs = <<>>
    /\ clast = [op |-> "none", obj |-> 0, txn |-> 0, cur |-> 0, threw |-> "none"]

\* CursorTx objects are ended in stack order: a method that can end a native
\* transaction is called on an object that holds no transaction or on the
\* object of the innermost open transaction
InOrderC(i) ==
    ctxs[i].alive /\ (ctxs[i].tx.cTxn = 0 \/ ctxs[i].tx.cTxn = Innermost)

CurCall(op, i, c, r) ==
    /\ nat' = r.nat
    /\ curs' = r.curs
    /\ clast' = [op |-> op, obj |-> i, txn |-> c.tx.cTxn, cur |-> c.cCursor, threw |-> r.threw]
    /\ UNCHANGED <<txs, tsucc, tlast, seen, nputs, tgone, nmoves>>
    /\ UNCHANGED <<varsQC, varsQB, varsRun, varsExec, varsBox, varsConc>>

\* CursorTx ctx(mode, store, entityId)
CtxOpen ==
    \E mode \in {"READ", "WRITE"}, fault \in {OBX_SUCCESS, OBX_ERROR_STORAGE_GENERAL} :
        /\ Len(ctxs) < MaxCtx
        /\ LET r == CursorTx_ctor(nat, curs, mode, fault)
           IN  /\ ctxs' = Append(ctxs, r.c)
               /\ CurCall("open", Len(ctxs) + 1, r.c, r)

\* ctx.commitAndClose(); e is what the engine reports for a suppressed commit
CtxCommitAndClose ==
    \E i \in DOMAIN ctxs, e \in {OBX_SUCCESS, OBX_ERROR_ILLEGAL_STATE} :
        /\ InOrderC(i)
        /\ LET r == CursorTx_commitAndClose(ctxs[i], nat, curs, e)
           IN  /\ ctxs' = [ctxs EXCEPT ![i] = r.c]
               /\ CurCall("commitAndClose", i, ctxs[i], r)

\* the CursorTx object goes out of scope
CtxDestroy ==
    \E i \in DOMAIN ctxs :
        /\ InOrderC(i)
        /\ LET r == CursorTx_dtor(ctxs[i], nat, curs)
           IN  /\ ctxs' = [ctxs EXCEPT ![i] = r.c]
               /\ CurCall("destroy", i, ctxs[i], r)

\* CursorTx b(std::move(a)): a new object takes the handles of ctxs[j]
CtxMove ==
    \E j \in DOMAIN ctxs :
        /\ Len(ctxs) < MaxCtx
        /\ ctxs[j].alive
        /\ LET m == CursorTx_move(ctxs[j])
           IN  /\ ctxs' = Append([ctxs EXCEPT ![j] = m.source], m.c)
               /\ CurCall("move", Len(ctxs) + 1, m.c, CRet(m.c, nat, curs, "none"))

NextCursor == CtxOpen \/ CtxCommitAndClose \/ CtxDestroy \/ CtxMove

\* --------------------------------------------- native object access
\* the ids of the objects a cursor of the thread sees: the committed ones
\* and those put in the running transaction
VisibleIds(n) == {r.id : r \in n.committed \cup n.pending}

\* the id the engine assigns to a new object
NewId(n) ==
    LET used == VisibleIds(n)
    IN  IF used = {} THEN 1 ELSE 1 + CHOOSE m \in used : \A u \in used : u <= m

\* EntityBinding::toFlatBuffer / fromFlatBuffer: the object's fields as a
\* table of bytes and back
toFlatBuffer(object) == <<object.id>>

fromFlatBuffer(data) == [id |-> data[1]]

\* obx_cursor_get: the data of the object, OBX_NOT_FOUND for an id that is
\* not stored, or a failure of the engine
obx_cursor_get(n, id, fault) ==
    IF fault # OBX_SUCCESS THEN [err |-> fault, data |-> <<>>]
    ELSE IF id \notin VisibleIds(n) THEN [err |-> OBX_NOT_FOUND, data |-> <<>>]
    ELSE [err |-> OBX_SUCCESS, data |-> <<id>>]

\* obx_cursor_put_object4: puts the object in the cursor's transaction and
\* returns its id (a new one for id 0); 0 on a failure
obx_cursor_put_object4(n, data, fault) ==
    IF fault # OBX_SUCCESS THEN [nat |-> n, id |-> 0, err |-> fault]
    ELSE LET id == IF data[1] = 0 THEN NewId(n) ELSE data[1]
         IN  [nat |-> obx_put(n, id), id |-> id, err |-> OBX_SUCCESS]

\* -------------------------------------------------------------- class Box
\* an empty std::unique_ptr / std::optional, and one holding an object
Empty == [has |-> FALSE, obj |-> [id |-> 0]]

Holding(object) == [has |-> TRUE, obj |-> object]

\* result of a Box method: the returned value, the out parameters, the
\* engine, the cursors, the exception, the native transaction of the call
BRet(ret, out, n, cs, threw, scope) ==
    [ret |-> ret, out |-> out, nat |-> n, curs |-> cs, threw |-> threw, scope |-> scope]

\* faulty variant: get() treats OBX_NOT_FOUND as any other error
BoxTypeless_get_Checked(n, id, fault) ==
    LET r == obx_cursor_get(n, id, fault)
    IN  [found |-> r.err = OBX_SUCCESS, data |-> r.data, threw |-> checkErrOrThrow(r.err)]

\* BoxTypeless::get(cTx, id, data, size): false for OBX_NOT_FOUND,
\* checkErrOrThrow(err), true
BoxTypeless_get(n, id, fault) ==
    LET r == obx_cursor_get(n, id, fault)
    IN  IF r.err = OBX_NOT_FOUND THEN [found |-> FALSE, data |-> r.data, threw |-> "none"]
        ELSE [found |-> r.err = OBX_SUCCESS, data |-> r.data, threw |-> checkErrOrThrow(r.err)]

\* the value of a one-element set; { e(x) : x \in {v} } computes v once
\* for all its uses in e
Only(S) == CHOOSE x \in S : TRUE

\* Box::get(id, outObject): a read CursorTx for the call; the object is read
\* into outObject only when it was found
Box_get(id, out, n, cs, cfault, fault) ==
    Only({ IF c.threw # "none" THEN BRet(FALSE, out, c.nat, c.curs, c.threw, 0)
           ELSE Only({ IF r.threw # "none" \/ ~r.found
                       THEN BRet(FALSE, out, d.nat, d.curs, r.threw, c.c.tx.cTxn)
                       ELSE BRet(TRUE, fromFlatBuffer(r.data), d.nat, d.curs, "none",
                                 c.c.tx.cTxn)
                       : r \in {BoxTypeless_get(c.nat, id, fault)},
                         d \in {CursorTx_dtor(c.c, c.nat, c.curs)} })
           : c \in {CursorTx_ctor(n, cs, "READ", cfault)} })

\* the loop of Box::getMany from index i: result[i] stays empty for
\* OBX_NOT_FOUND; the engine fails at index failAt (0: never)
RECURSIVE getManyLoop(_, _, _, _, _, _)
getManyLoop(n, ids, i, result, failAt, fault) ==
    IF i > Len(ids) THEN [result |-> result, threw |-> "none"]
    ELSE Only({ IF r.err = OBX_NOT_FOUND
                THEN getManyLoop(n, ids, i + 1, result, failAt, fault)
                ELSE IF r.err # OBX_SUCCESS
                THEN [result |-> result, threw |-> checkErrOrThrow(r.err)]
                ELSE getManyLoop(n, ids, i + 1,
                                 [result EXCEPT ![i] = Holding(fromFlatBuffer(r.data))],
                                 failAt, fault)
                : r \in {obx_cursor_get(n, ids[i],
                                        IF i = failAt THEN fault ELSE OBX_SUCCESS)} })

\* Box::get(ids) / Box::getMany: result.resize(ids.size()), one read
\* CursorTx, the loop; an exception leaves no result
Box_getMany(ids, n, cs, cfault, failAt, fault) ==
    Only({ IF c.threw # "none" THEN BRet(<<>>, <<>>, c.nat, c.curs, c.threw, 0)
           ELSE Only({ BRet(IF l.threw = "none" THEN l.result ELSE <<>>, <<>>, d.nat,
                            d.curs, l.threw, c.c.tx.cTxn)
                       : l \in {getManyLoop(c.nat, ids, 1, [i \in DOMAIN ids |-> Empty],
                                            failAt, fault)},
                         d \in {CursorTx_dtor(c.c, c.nat, c.curs)} })
           : c \in {CursorTx_ctor(n, cs, "READ", cfault)} })

\* the loop of Box::putMany from index i: cursorPut (toFlatBuffer,
\* obx_cursor_put_object4, checkIdOrThrow, setObjectId) and
\* outIds->push_back(id); the engine fails at index failAt (0: never)
RECURSIVE putManyLoop(_, _, _, _, _, _)
putManyLoop(n, objects, i, outIds, failAt, fault) ==
    IF i > Len(objects) THEN [nat |-> n, objects |-> objects, outIds |-> outIds, threw |-> "none"]
    ELSE Only({ IF r.id = 0
                THEN [nat |-> r.nat, objects |-> objects, outIds |-> outIds,
                      threw |-> throwError(r.err)]
                ELSE Only({ putManyLoop(r.nat, os, i + 1, ids, failAt, fault)
                            : os \in {[objects EXCEPT ![i].id = r.id]},
                              ids \in {Append(outIds, r.id)} })
                : r \in {obx_cursor_put_object4(n, toFlatBuffer(objects[i]),
                                                IF i = failAt THEN fault ELSE OBX_SUCCESS)} })

\* the end of Box::putMany after the loop l on the CursorTx c: commitAndClose()
\* and the destructor, or the destructor alone after an exception
putManyEnd(c, l, e) ==
    IF l.threw # "none"
    THEN Only({ BRet(0, [objects |-> l.objects, outIds |-> l.outIds], d.nat, d.curs,
                     l.threw, c.c.tx.cTxn)
                : d \in {CursorTx_dtor(c.c, l.nat, c.curs)} })
    ELSE Only({ Only({ BRet(IF m.threw = "none" THEN Len(l.outIds) ELSE 0,
                            [objects |-> l.objects, outIds |-> l.outIds],
                            d.nat, d.curs, m.threw, c.c.tx.cTxn)
                       : d \in {CursorTx_dtor(m.c, m.nat, m.curs)} })
                : m \in {CursorTx_commitAndClose(c.c, l.nat, c.curs, e)} })

\* Box::put(std::vector<EntityT>&, outIds, mode) / Box::putMany: nothing for
\* an empty vector; else one write CursorTx, the loop, commitAndClose(); an
\* exception destroys the CursorTx. ret is the number of objects put, out
\* the objects with their ids and outIds
Box_putMany(objects, n, cs, cfault, failAt, fault, e) ==
    IF objects = <<>> THEN BRet(0, [objects |-> objects, outIds |-> <<>>], n, cs, "none", 0)
    ELSE Only({ IF c.threw # "none"
                THEN BRet(0, [objects |-> objects, outIds |-> <<>>], c.nat, c.curs,
                          c.threw, 0)
                ELSE Only({ putManyEnd(c, l, e)
                            : l \in {putManyLoop(c.nat, objects, 1, <<>>, failAt, fault)} })
                : c \in {CursorTx_ctor(n, cs, "WRITE", cfault)} })

InitBox ==
    /\ bout = [id |-> 0]
    /\ blast = [op |-> "none", ids |-> <<>>, failed |-> FALSE, scope |-> 0, ret |-> 0,
                threw |-> "none"]
    /\ bfailed = {}
    /\ bcalls = 0

\* the failures the engine reports to a Box call: none, one when the cursor
\* is opened, one at the object with index failAt
BoxFaults(len) ==
    {[open |-> OBX_SUCCESS, at |-> 0]} \cup
    {[open |-> OBX_ERROR_STORAGE_GENERAL, at |-> 0]} \cup
    {[open |-> OBX_SUCCESS, at |-> k] : k \in 1..len}

BoxCall(op, ids, f, r) ==
    /\ bcalls < MaxCalls
    /\ bcalls' = bcalls + 1
    /\ nat' = r.nat
    /\ curs' = r.curs
    /\ blast' = [op |-> op, ids |-> ids, failed |-> f # [open |-> OBX_SUCCESS, at |-> 0],
                 scope |-> r.scope, ret |-> r.ret, threw |-> r.threw]
    /\ UNCHANGED <<txs, tsucc, tlast, seen, nputs, tgone, nmoves>>
    /\ UNCHANGED <<ctxs, clast>>
    /\ UNCHANGED <<varsQC, varsQB, varsRun, varsExec, varsConc>>

\* box.get(id, outObject)
BoxGet ==
    \E id \in 1..(MaxId + 1), f \in BoxFaults(1) :
        LET r == Box_get(id, bout, nat, curs, f.open, 
                         IF f.at = 1 THEN OBX_ERROR_STORAGE_GENERAL ELSE OBX_SUCCESS)
        IN  /\ BoxCall("get", <<id>>, f, r)
            /\ bout' = r.out
            /\ UNCHANGED bfailed

\* the vectors of ids the program asks for
IdVectors == UNION {[1..len -> 1..(MaxId + 1)] : len \in 0..MaxObjs}

\* box.get(ids)
BoxGetMany ==
    \E ids \in IdVectors : \E f \in BoxFaults(Len(ids)) :
        LET r == Box_getMany(ids, nat, curs, f.open, f.at, OBX_ERROR_STORAGE_GENERAL)
        IN  /\ BoxCall("getMany", ids, f, r)
            /\ UNCHANGED <<bout, bfailed>>

\* the vectors of objects the program puts: new objects (id 0) and objects
\* with an id
ObjectVectors == UNION {[1..len -> [id : 0..MaxId]] : len \in 0..MaxObjs}

\* box.put(objects, &outIds); the transaction of the call is a new top level
\* one or an inner one, whose success() commits nothing by itself
BoxPutMany ==
    \E objects \in ObjectVectors : \E f \in BoxFaults(Len(objects)) :
        LET r == Box_putMany(objects, nat, curs, f.open, f.at, OBX_ERROR_STORAGE_GENERAL,
                             OBX_ERROR_ILLEGAL_STATE)
        IN  /\ bcalls < MaxPutCalls
            /\ objects = <<>> => f.open = OBX_SUCCESS
            /\ Cardinality(VisibleIds(nat))
                 + Cardinality({i \in DOMAIN objects : objects[i].id = 0}) <= MaxId
            /\ BoxCall("putMany", r.out.outIds, f, r)
            /\ bfailed' = bfailed \cup (IF r.threw # "none" THEN {r.scope} \ {0} ELSE {})
            /\ UNCHANGED bout

NextBoxGet == BoxPutMany \/ BoxGet \/ BoxGetMany

NextBoxPut == TxOpen \/ TxSuccess \/ TxDestroy \/ BoxPutMany

\* ------------------------------------------------------ Store and Sync

Threads == 1..MaxThreads

\* a thread that is in no call
Idle(calls) ==
    [pc |-> "idle", syncClient |-> 0, storeToClose |-> 0, obj |-> 0, exc |-> "none",
     calls |-> calls]

\* faulty variant of the exchange: cStore_.load(), the handle stays
cStore_load(st) == [old |-> st.cStore_, st |-> st]

\* cStore_.exchange(nullptr): the previous handle, and the store after it
cStore_exchange(st) == [old |-> st.cStore_, st |-> [st EXCEPT !.cStore_ = 0]]

\* obx_store_close(store): a NULL store is ignored
obx_store_close(en, ptr) == IF ptr = 0 THEN en ELSE [en EXCEPT !.storeCloses = @ + 1]

\* obx_sync_urls: a new native sync client
obx_sync_urls(en) == [en EXCEPT !.syncCloses = Append(@, 0)]

\* obx_sync_close(sync)
obx_sync_close(en, ptr) == [en EXCEPT !.syncCloses[ptr] = @ + 1]

\* SyncClient::isClosed
SyncClient_isClosed(cl, sc) == cl[sc].cSync_ = 0

\* SyncClient::closeNonVirtual once the lock_guard on store_.syncClientMutex_
\* is taken: ptr = cSync_.exchange(nullptr); if (ptr) { store_.syncClient_
\* .reset(); obx_sync_close(ptr); }
SyncClient_closeNonVirtual(st, cl, en, sc) ==
    LET ptr == cl[sc].cSync_
    IN  IF ptr = 0 THEN [st |-> st, cl |-> cl, en |-> en]
        ELSE [st |-> [st EXCEPT !.syncClient_ = 0],
              cl |-> [cl EXCEPT ![sc].cSync_ = 0],
              en |-> obx_sync_close(en, ptr)]

\* what locking a std::mutex the calling thread already owns can do: block
\* for ever, throw std::system_error (resource_deadlock_would_occur), or
\* go on as if the lock were taken
RelockOutcomes == {"blocks", "throws", "proceeds"}

InitStore ==
    /\ sstore = [exists |-> FALSE, cStore_ |-> 0, owned_ |-> FALSE, syncClient_ |-> 0,
                 syncClientMutex_ |-> 0]
    /\ sclients = <<>>
    /\ sengine = [storeCloses |-> 0, syncCloses |-> <<>>]
    /\ sthreads = [t \in Threads |-> Idle(0)]
    /\ slast = [t |-> 0, op |-> "none", threw |-> "none"]

\* thread t returns from the call op
Return(t, op, threw) ==
    /\ sthreads' = [sthreads EXCEPT ![t] = Idle(@.calls + 1)]
    /\ slast' = [t |-> t, op |-> op, threw |-> threw]

\* thread t may start a call
CanCall(t) ==
    /\ sstore.exists
    /\ sthreads[t].pc = "idle"
    /\ sthreads[t].calls < MaxStoreCalls

\* Store::Store(OBX_store* ptr, bool owned)
StoreCtor ==
    \E owned \in BOOLEAN :
        /\ ~sstore.exists
        /\ sstore' = [exists |-> TRUE, cStore_ |-> 1, owned_ |-> owned, syncClient_ |-> 0,
                      syncClientMutex_ |-> 0]
        /\ UNCHANGED <<sclients, sengine, sthreads, slast>>
        /\ UNCHANGED <<varsData, varsLsn>>

\* Store::close(), first block: under the mutex the store's pointer to the
\* sync client is moved into the local syncClient
CloseTake(t) ==
    /\ CanCall(t)
    /\ sstore.syncClientMutex_ = 0
    /\ sstore' = [sstore EXCEPT !.syncClient_ = 0]
    /\ sthreads' = [sthreads EXCEPT ![t].pc = "closeSync",
                                    ![t].syncClient = sstore.syncClient_]
    /\ UNCHANGED <<sclients, sengine, slast>>
    /\ UNCHANGED <<varsData, varsLsn>>

\* Store::close(): if (syncClient && !syncClient->isClosed())
\* syncClient->close(), which takes the mutex in closeNonVirtual
CloseSync(t) ==
    /\ sthreads[t].pc = "closeSync"
    /\ LET sc == sthreads[t].syncClient
       IN  IF sc # 0 /\ ~SyncClient_isClosed(sclients, sc)
           THEN /\ sstore.syncClientMutex_ = 0
                /\ LET r == SyncClient_closeNonVirtual(sstore, sclients, sengine, sc)
                   IN  /\ sstore' = r.st
                       /\ sclients' = r.cl
                       /\ sengine' = r.en
           ELSE UNCHANGED <<sstore, sclients, sengine>>
    /\ sthreads' = [sthreads EXCEPT ![t].pc = "closeStore", ![t].syncClient = 0]
    /\ UNCHANGED slast
    /\ UNCHANGED <<varsData, varsLsn>>

\* Store::close(): if (owned_) storeToClose = cStore_.exchange(nullptr)
CloseExchange(t) ==
    /\ sthreads[t].pc = "closeStore"
    /\ IF sstore.owned_
       THEN LET r == cStore_exchange(sstore)
            IN  /\ sstore' = r.st
                /\ sthreads' = [sthreads EXCEPT ![t].pc = "closeNative",
                                                ![t].storeToClose = r.old]
                /\ UNCHANGED slast
       ELSE /\ Return(t, "close", "none")
            /\ UNCHANGED sstore
    /\ UNCHANGED <<sclients, sengine>>
    /\ UNCHANGED <<varsData, varsLsn>>

\* Store::close(): obx_store_close(storeToClose), and the call returns
CloseNative(t) ==
    /\ sthreads[t].pc = "closeNative"
    /\ sengine' = obx_store_close(sengine, sthreads[t].storeToClose)
    /\ Return(t, "close", "none")
    /\ UNCHANGED <<sstore, sclients>>
    /\ UNCHANGED <<varsData, varsLsn>>

\* Sync::client(): lock_guard lock(store.syncClientMutex_); if
\* (store.syncClient_) throw IllegalStateException
ClientLock(t) ==
    /\ CanCall(t)
    /\ sstore.syncClientMutex_ = 0
    /\ IF sstore.syncClient_ # 0
       THEN /\ Return(t, "client", "IllegalStateException")
            /\ UNCHANGED sstore
       ELSE /\ sstore' = [sstore EXCEPT !.syncClientMutex_ = t]
            /\ sthreads' = [sthreads EXCEPT ![t].pc = "clientNew"]
            /\ UNCHANGED slast
    /\ UNCHANGED <<sclients, sengine>>
    /\ UNCHANGED <<varsData, varsLsn>>

\* SyncClient::SyncClient, called under the mutex: cSync_ =
\* obx_sync_urls(store.cPtr(), ...); checkPtrOrThrow(cSync_). An exception
\* leaves Sync::client, which releases the mutex
ClientNew(t) ==
    \E err \in {OBX_SUCCESS, OBX_ERROR_STORAGE_GENERAL} :
        /\ sthreads[t].pc = "clientNew"
        /\ IF sstore.cStore_ = 0 \/ err # OBX_SUCCESS
           THEN /\ Return(t, "client",
                          IF sstore.cStore_ = 0 THEN "ShuttingDownException"
                          ELSE throwError(err))
                /\ sstore' = [sstore EXCEPT !.syncClientMutex_ = 0]
                /\ UNCHANGED <<sclients, sengine>>
           ELSE /\ sengine' = obx_sync_urls(sengine)
                /\ sclients' = Append(sclients, [cSync_ |-> Len(sengine.syncCloses) + 1])
                /\ sthreads' = [sthreads EXCEPT ![t].pc = "clientCreds",
                                                ![t].obj = Len(sclients) + 1]
                /\ UNCHANGED <<sstore, slast>>
        /\ UNCHANGED <<varsData, varsLsn>>

\* SyncClient::SyncClient: try { setCredentials(creds); }; without an
\* exception Sync::client stores the object in store.syncClient_ and returns
ClientCreds(t) ==
    \E err \in {OBX_SUCCESS, OBX_ERROR_ILLEGAL_ARGUMENT} :
        /\ sthreads[t].pc = "clientCreds"
        /\ IF err = OBX_SUCCESS
           THEN /\ sstore' = [sstore EXCEPT !.syncClient_ = sthreads[t].obj,
                                           !.syncClientMutex_ = 0]
                /\ Return(t, "client", "none")
           ELSE /\ sthreads' = [sthreads EXCEPT ![t].pc = "clientCatch",
                                                ![t].exc = checkErrOrThrow(err)]
                /\ UNCHANGED <<sstore, slast>>
        /\ UNCHANGED <<sclients, sengine>>
        /\ UNCHANGED <<varsData, varsLsn>>

\* SyncClient::SyncClient: catch (...) { closeNonVirtual(); throw; }.
\* closeNonVirtual exchanges cSync_ and then locks store_.syncClientMutex_,
\* which is the mutex Sync::client holds on this thread
ClientCatch(t) ==
    \E outcome \in RelockOutcomes :
        /\ sthreads[t].pc = "clientCatch"
        /\ LET sc == sthreads[t].obj
               relock == sstore.syncClientMutex_ = t
               r == SyncClient_closeNonVirtual(sstore, sclients, sengine, sc)
           IN  IF relock /\ outcome = "blocks"
               THEN /\ sclients' = [sclients EXCEPT ![sc].cSync_ = 0]
                    /\ sthreads' = [sthreads EXCEPT ![t].pc = "blocked"]
                    /\ UNCHANGED <<sstore, sengine, slast>>
               ELSE IF relock /\ outcome = "throws"
               THEN /\ sclients' = [sclients EXCEPT ![sc].cSync_ = 0]
                    /\ sstore' = [sstore EXCEPT !.syncClientMutex_ = 0]
                    /\ Return(t, "client", "std::system_error")
                    /\ UNCHANGED sengine
               ELSE /\ sclients' = r.cl
                    /\ sengine' = r.en
                    /\ sstore' = [r.st EXCEPT !.syncClientMutex_ = 0]
                    /\ Return(t, "client", sthreads[t].exc)
        /\ UNCHANGED <<varsData, varsLsn>>

\* one step of thread t
ThreadStep(t) ==
    \/ CloseTake(t)
    \/ CloseSync(t)
    \/ CloseExchange(t)
    \/ CloseNative(t)
    \/ ClientLock(t)
    \/ ClientNew(t)
    \/ ClientCreds(t)
    \/ ClientCatch(t)

NextStore == StoreCtor \/ \E t \in Threads : ThreadStep(t)

\* ------------------------------------------------ SyncClient listeners

\* obx_sync_listener_*(sync, nullptr, nullptr)
NoCb == [cls |-> "none", arg |-> 0]

\* a callback that casts its argument to the listener class cls
Cb(cls, arg) == [cls |-> cls, arg |-> arg]

\* the listener slots and the engine's callbacks as one value
LState(ls, reg, released) == [ls |-> ls, reg |-> reg, released |-> released]

\* a shared_ptr to a listener goes out of scope: the client held the only one
Release(S, listener) ==
    IF listener = 0 THEN S ELSE [S EXCEPT !.released = @ \cup {listener}]

\* SyncClient::removeLoginListener
removeLoginListener(S, evenIfEmpty) ==
    LET listener == S.ls.login
        S1 == [S EXCEPT !.ls.login = 0]
        S2 == IF listener # 0 \/ evenIfEmpty
              THEN [S1 EXCEPT !.reg.login = NoCb, !.reg.login_failure = NoCb]
              ELSE S1
    IN  Release(S2, listener)

\* SyncClient::removeCompletionListener
removeCompletionListener(S, evenIfEmpty) ==
    LET listener == S.ls.complete
        S1 == [S EXCEPT !.ls.complete = 0]
        S2 == IF listener # 0 \/ evenIfEmpty THEN [S1 EXCEPT !.reg.complete = NoCb] ELSE S1
    IN  Release(S2, listener)

\* SyncClient::removeErrorListener
removeErrorListener(S, evenIfEmpty) ==
    LET listener == S.ls.error
        S1 == [S EXCEPT !.ls.error = 0]
        S2 == IF listener # 0 \/ evenIfEmpty THEN [S1 EXCEPT !.reg.error = NoCb] ELSE S1
    IN  Release(S2, listener)

\* SyncClient::removeConnectionListener
removeConnectionListener(S, evenIfEmpty) ==
    LET listener == S.ls.connect
        S1 == [S EXCEPT !.ls.connect = 0]
        S2 == IF listener # 0 \/ evenIfEmpty
              THEN [S1 EXCEPT !.reg.connect = NoCb, !.reg.disconnect = NoCb]
              ELSE S1
    IN  Release(S2, listener)

\* SyncClient::removeTimeListener
removeTimeListener(S, evenIfEmpty) ==
    LET listener == S.ls.time
        S1 == [S EXCEPT !.ls.time = 0]
        S2 == IF listener # 0 \/ evenIfEmpty THEN [S1 EXCEPT !.reg.server_time = NoCb] ELSE S1
    IN  Release(S2, listener)

\* SyncClient::removeChangeListener
removeChangeListener(S, evenIfEmpty) ==
    LET listener == S.ls.change
        S1 == [S EXCEPT !.ls.change = 0]
        S2 == IF listener # 0 \/ evenIfEmpty THEN [S1 EXCEPT !.reg.change = NoCb] ELSE S1
    IN  Release(S2, listener)

\* SyncClient::setLoginListener(listener)
SyncClient_setLoginListener(S, listener) ==
    LET S1 == removeLoginListener(S, FALSE)
    IN  IF listener = 0 THEN S1
        ELSE [S1 EXCEPT !.ls.login = listener,
                        !.reg.login = Cb("login", listener),
                        !.reg.login_failure = Cb("login", listener)]

\* SyncClient::setChangeListener(listener)
SyncClient_setChangeListener(S, listener) ==
    LET S1 == removeChangeListener(S, FALSE)
    IN  IF listener = 0 THEN S1
        ELSE [S1 EXCEPT !.ls.change = listener, !.reg.change = Cb("change", listener)]

\* SyncClient::setErrorListener(listener): the callback casts its argument
\* to SyncClientErrorListener; the argument is listeners_.change.get()
SyncClient_setErrorListener(S, listener) ==
    LET S1 == removeErrorListener(S, FALSE)
    IN  IF listener = 0 THEN S1
        ELSE [S1 EXCEPT !.ls.error = listener, !.reg.error = Cb("error", S1.ls.change)]

\* SyncClient::setListener(listener)
SyncClient_setListener(S, listener) ==
    LET forceRemove == S.ls.combined # 0
        S1 == removeLoginListener(S, forceRemove)
        S2 == removeCompletionListener(S1, forceRemove)
        S3 == removeErrorListener(S2, forceRemove)
        S4 == removeConnectionListener(S3, forceRemove)
        S5 == removeTimeListener(S4, forceRemove)
        S6 == removeChangeListener(S5, forceRemove)
        S7 == Release([S6 EXCEPT !.ls.combined = 0], S6.ls.combined)
    IN  IF listener = 0 THEN S7
        ELSE [S7 EXCEPT !.ls.combined = listener,
                        !.reg = [k \in DOMAIN S7.reg |->
                                    IF k = "msg_objects" THEN S7.reg[k]
                                    ELSE Cb("combined", listener)]]

\* SyncClient::setObjectsMessageListener(listener): the previous listener
\* lives until the end of the call
SyncClient_setObjectsMessageListener(S, listener) ==
    LET previous == S.ls.object
        S1 == [S EXCEPT !.ls.object = listener]
        S2 == IF listener # 0 THEN [S1 EXCEPT !.reg.msg_objects = Cb("object", listener)]
              ELSE IF previous # 0 THEN [S1 EXCEPT !.reg.msg_objects = NoCb]
              ELSE S1
    IN  Release(S2, previous)

\* the class an argument pointer really points to: nothing for nullptr and
\* for an object that was released
PointsTo(classes, released, arg) ==
    IF arg = 0 \/ arg \in released THEN "none" ELSE classes[arg]

\* what a call of the engine's error callback can do when its argument is not
\* a live SyncClientErrorListener: fail, or run some other code
BadCastOutcomes == {"crash", "other"}

InitLsn ==
    /\ listeners_ = [login |-> 0, complete |-> 0, connect |-> 0, change |-> 0, time |-> 0,
                     combined |-> 0, error |-> 0, object |-> 0]
    /\ lreg = [k \in {"login", "login_failure", "complete", "error", "connect", "disconnect",
                       "server_time", "change", "msg_objects"} |-> NoCb]
    /\ lreleased = {}
    /\ lclass = <<>>
    /\ levent = [to |-> 0, call |-> "none"]

\* the program calls a listener setter with a new listener of class cls or
\* with nullptr
SetCall(cls, listener, S) ==
    /\ listener \in {0, Len(lclass) + 1}
    /\ listener # 0 => Len(lclass) < MaxListeners
    /\ listeners_' = S.ls
    /\ lreg' = S.reg
    /\ lreleased' = S.released
    /\ lclass' = IF listener # 0 THEN Append(lclass, cls) ELSE lclass
    /\ UNCHANGED levent
    /\ UNCHANGED <<varsData, varsStore>>

SetLoginListener ==
    \E listener \in 0..MaxListeners :
        SetCall("login", listener,
                SyncClient_setLoginListener(LState(listeners_, lreg, lreleased), listener))

SetChangeListener ==
    \E listener \in 0..MaxListeners :
        SetCall("change", listener,
                SyncClient_setChangeListener(LState(listeners_, lreg, lreleased), listener))

SetErrorListener ==
    \E listener \in 0..MaxListeners :
        SetCall("error", listener,
                SyncClient_setErrorListener(LState(listeners_, lreg, lreleased), listener))

SetListener ==
    \E listener \in 0..MaxListeners :
        SetCall("combined", listener,
                SyncClient_setListener(LState(listeners_, lreg, lreleased), listener))

SetObjectsMessageListener ==
    \E listener \in 0..MaxListeners :
        SetCall("object", listener,
                SyncClient_setObjectsMessageListener(LState(listeners_, lreg, lreleased),
                                                     listener))

\* the engine raises a sync error: it calls the registered error callback
\* with the registered argument, and the callback calls errorOccurred on it
EngineErrorEvent ==
    \E outcome \in BadCastOutcomes :
        /\ levent' =
              IF lreg.error.cls = "none" THEN [to |-> 0, call |-> "none"]
              ELSE IF PointsTo(lclass, lreleased, lreg.error.arg) = lreg.error.cls
              THEN [to |-> lreg.error.arg, call |-> "errorOccurred"]
              ELSE [to |-> lreg.error.arg, call |-> outcome]
        /\ UNCHANGED <<listeners_, lreg, lreleased, lclass>>
        /\ UNCHANGED <<varsData, varsStore>>

NextLsn ==
    \/ SetLoginListener
    \/ SetChangeListener
    \/ SetErrorListener
    \/ SetListener
    \/ SetObjectsMessageListener
    \/ EngineErrorEvent

InitExt == InitExec /\ InitCur /\ InitBox /\ InitStore /\ InitLsn

Init == InitQC /\ InitQB /\ InitTx /\ InitRun /\ InitExt

SpecQC == Init /\ [][NextQC]_vars

SpecQuery == Init /\ [][NextQuery]_vars

SpecTx == Init /\ [][NextTx]_vars

SpecTxMove == Init /\ [][NextTxMove]_vars

SpecBuild == Init /\ [][NextBuild]_vars

SpecQbError == Init /\ [][NextQbError]_vars

SpecLimit == Init /\ [][NextLimit]_vars

SpecParam == Init /\ [][NextParam]_vars

SpecExec == Init /\ [][NextExec]_vars

SpecCursor == Init /\ [][NextCursor]_vars

SpecBoxGet == Init /\ [][NextBoxGet]_vars

SpecBoxPut == Init /\ [][NextBoxPut]_vars

SpecStore == Init /\ [][NextStore]_vars

SpecLsn == Init /\ [][NextLsn]_vars

\* every thread that can take a step eventually takes one
SpecStoreLive == SpecStore /\ \A t \in Threads : WF_vars(ThreadStep(t))

\* ------------------------------------------- condition algebra: properties

\* the flat group of the leaves on the properties ps under one combinator
FlatGroup(isOr, ps) ==
    [isOr |-> isOr, children |-> [i \in 1..Len(ps) |-> [leaf |-> ps[i]]]]

IsOrOp(op) == op \in {"or_", "opOrMove"}

\* a direct child of the object g that is a group with g's combinator
SameCombinatorChild(h, g, i) ==
    /\ IsGroup(h, h[g].conditions[i])
    /\ h[h[g].conditions[i]].isOr = h[g].isOr

\* C1: n >= 2 leaves combined left to right under one combinator give exactly
\* one group of that combinator whose children are the n leaves in combine
\* order (never nested two-child groups).
C1_ChainIsOneFlatGroup ==
    \A r \in qlocals :
        Len(qchain[r].leaves) >= 2 =>
            Tree(qheap, r) = FlatGroup(qchain[r].isOr, qchain[r].leaves)

C1_Witness ==
    /\ qlast.op = "and_"
    /\ Len(qchain[qlast.res].leaves) = 3

\* C2: combining a group with the opposite combinator wraps it: the result is
\* a two-child group of the new combinator, its first child structurally the
\* old group and its second child the right operand.
C2_OppositeCombinatorWraps ==
    [][ (/\ IsGroup(qheap, qlast'.lhs)
         /\ qheap[qlast'.lhs].isOr # IsOrOp(qlast'.op))
        => Tree(qheap', qlast'.res) =
             [isOr |-> IsOrOp(qlast'.op),
              children |-> <<Tree(qheap, qlast'.lhs), Tree(qheap, qlast'.rhs)>>] ]_varsQC

C2_Witness ==
    /\ qlast.op = "or_"
    /\ Tree(qheap, qlast.res) =
         [isOr |-> TRUE, children |-> <<FlatGroup(FALSE, <<1, 2>>), [leaf |-> 1]>>]

\* C3: a move-optimized operator&& / operator|| returns a tree structurally
\* identical to the one the copying and_ / or_ returns for the same operands.
C3_MoveEqualsCopy ==
    [][ /\ qlast'.op = "opAndMove" =>
             LET c == and_(qheap, qlast'.lhs, qlast'.rhs)
             IN  Tree(qheap', qlast'.res) = Tree(c.heap, c.ptr)
        /\ qlast'.op = "opOrMove" =>
             LET c == or_(qheap, qlast'.lhs, qlast'.rhs)
             IN  Tree(qheap', qlast'.res) = Tree(c.heap, c.ptr) ]_varsQC

C3_Witness ==
    /\ qlast.op = "opAndMove"
    /\ qlast.lhs \in qmoved
    /\ Len(qheap[qlast.res].conditions) = 3

\* C4 as claimed: no group has a direct child that is a group with its own
\* combinator, also when the right operand is a group of that combinator.
C4_NoSameCombinatorChild ==
    \A g \in DOMAIN qheap :
        IsGroup(qheap, g) =>
            \A i \in 1..Len(qheap[g].conditions) : ~SameCombinatorChild(qheap, g, i)

\* C4 as amended: in every group built without a moved-from operand the first
\* child is never a group of the same combinator (the left group is extended,
\* not nested), and a combine appends the right operand as one child as it
\* is, so a right operand that is a group of that combinator stays nested.
C4_LeftIsMergedRightIsKept ==
    [][ /\ \A g \in DOMAIN qheap' :
              (IsGroup(qheap', g) /\ g \notin qmoved' \cup qtainted')
                  => ~SameCombinatorChild(qheap', g, 1)
        /\ LET cs == qheap'[qlast'.res].conditions
           IN  /\ cs # <<>>
               /\ Tree(qheap', cs[Len(cs)]) = Tree(qheap, qlast'.rhs) ]_varsQC

C4_Witness ==
    /\ qlast.op = "and_"
    /\ qlast.res \notin qtainted
    /\ Len(qheap[qlast.res].conditions) = 3
    /\ SameCombinatorChild(qheap, qlast.res, 3)

\* C5 as claimed: every group object has at least two children, the left
\* operand of a move-optimized combine included.
C5_EveryGroupHasTwoChildren ==
    \A g \in DOMAIN qheap :
        IsGroup(qheap, g) => Len(qheap[g].conditions) >= 2

\* C5 as amended: a group that was not moved from and not built from a
\* moved-from operand has at least two children and its child count never
\* decreases; the left operand of a same-combinator move-optimized combine is
\* left with an empty children list.
C5_OnlyMovedFromGroupsAreEmpty ==
    [][ \A g \in DOMAIN qheap' :
            IsGroup(qheap', g) =>
                IF g \in qmoved' THEN qheap'[g].conditions = <<>>
                ELSE /\ g \in qtainted' \/ Len(qheap'[g].conditions) >= 2
                     /\ g \in DOMAIN qheap =>
                            Len(qheap'[g].conditions) >= Len(qheap[g].conditions) ]_varsQC

C5_Witness ==
    /\ qlast.op = "opAndMove"
    /\ qlast.lhs \in qmoved
    /\ qheap[qlast.lhs].conditions = <<>>
    /\ qlast.res \notin qtainted
    /\ Len(qheap[qlast.res].conditions) >= 3

IsLeafTree(t) == "leaf" \in DOMAIN t

\* every group of the tree has two or more children
RECURSIVE AllWide(_)
AllWide(t) ==
    IsLeafTree(t) \/ (/\ Len(t.children) >= 2
                      /\ \A i \in DOMAIN t.children : AllWide(t.children[i]))

RECURSIVE Lowered(_, _, _)
RECURSIVE LoweredChildren(_, _, _, _)

\* the native calls of the children i.. of a group, applied in child order
\* with isRoot = false after n earlier conditions, then the group's own
\* combinator call over the children's handles ids (none for root AND)
LoweredChildren(t, isRoot, i, acc) ==
    IF i > Len(t.children)
    THEN IF isRoot /\ ~t.isOr THEN acc.calls
         ELSE Append(acc.calls, [kind |-> IF t.isOr THEN "any" ELSE "all",
                                 propId |-> 0, args |-> acc.ids])
    ELSE LET cs == Lowered(t.children[i], FALSE, Len(acc.calls))
         IN  LoweredChildren(t, isRoot, i + 1,
                             [calls |-> acc.calls \o cs,
                              ids |-> Append(acc.ids, Len(acc.calls) + Len(cs))])

\* the native conditions a tree is expected to create after n earlier ones
Lowered(t, isRoot, n) ==
    IF IsLeafTree(t) THEN <<[kind |-> "leaf", propId |-> t.leaf, args |-> <<>>]>>
    ELSE LET all == LoweredChildren(t, isRoot, 1,
                        [calls |-> [k \in 1..n |-> [kind |-> "pad", propId |-> 0, args |-> <<>>]],
                         ids |-> <<>>])
         IN  SubSeq(all, n + 1, Len(all))

\* whether the tree, read as a boolean formula, is true for a row
RECURSIVE Holds(_, _)
Holds(t, row) ==
    IF IsLeafTree(t) THEN t.leaf \in row[2]
    ELSE IF t.isOr THEN \E i \in DOMAIN t.children : Holds(t.children[i], row)
    ELSE \A i \in DOMAIN t.children : Holds(t.children[i], row)

\* C7: applyTo on a group with two or more children applies every child with
\* isRoot = false in child order; a root AND group then makes no combinator
\* call and returns no handle, any other group makes exactly one combinator
\* call over the children's handles, any for OR and all for AND.
C7_GroupLowering ==
    (bwith.x # 0 /\ IsGroup(qheap, bwith.x) /\ AllWide(Tree(qheap, bwith.x))) =>
        LET t == Tree(qheap, bwith.x)
        IN  /\ ~bwith.threw
            /\ cqb = Lowered(t, TRUE, 0)
            /\ bwith.cond = IF t.isOr THEN Len(cqb) ELSE 0

C7_Witness ==
    /\ bphase = "applied"
    /\ Tree(qheap, bwith.x) =
         [isOr |-> FALSE, children |-> <<[leaf |-> 1], FlatGroup(TRUE, <<2, 1>>)>>]
    /\ bwith.cond = 0
    /\ Len(cqb) = 4

\* C8: find() on the query built from a tree applied with with() returns
\* exactly the rows for which the tree is true as a boolean formula.
C8_FindReturnsRowsWhereTreeHolds ==
    bphase = "found" =>
        found = {row \in Table : Holds(Tree(qheap, bwith.x), row)}

C8_Witness ==
    /\ bphase = "found"
    /\ Tree(qheap, bwith.x) = FlatGroup(TRUE, <<1, 2>>)
    /\ Cardinality({row \in found : row[1] # 0}) = 4

\* -------------------------------------------- transactions: properties

\* the native transactions started under the top level transaction h
ScopesOf(h) == {k \in DOMAIN nat.txn : nat.txn[k].root = h}

\* the top level transaction h was committed
Committed(h) == nat.txn[h].top /\ nat.txn[h].success

\* the write transaction h is over and success() was never called on it
EndedWithoutSuccess(h) ==
    /\ nat.txn[h].mode = "WRITE"
    /\ ~nat.txn[h].open
    /\ h \notin tsucc

\* C9: the native transaction is committed only if success() was called on
\* the top level write scope and on every write scope nested under it; when
\* a nested write scope ended without success(), none of the objects put
\* under the top level scope is committed, whatever the outer scope called.
C9_CommitNeedsEverySuccess ==
    /\ \A h \in DOMAIN nat.txn :
          Committed(h) =>
              \A k \in ScopesOf(h) : nat.txn[k].mode = "WRITE" => k \in tsucc
    /\ \A obj \in nat.committed :
          /\ Committed(obj.root)
          /\ \A k \in ScopesOf(obj.root) : ~EndedWithoutSuccess(k)

C9_Witness ==
    /\ tlast.op = "success"
    /\ tlast.txn # 0
    /\ nat.txn[tlast.txn].top
    /\ \E k \in ScopesOf(tlast.txn) : k # tlast.txn /\ EndedWithoutSuccess(k)
    /\ nputs > 0
    /\ nat.committed = {}
    /\ nat.commits = 0

\* C10: a write Transaction closed or destroyed without success() commits
\* nothing: no object put in it or under it is in the committed state or is
\* seen by a later independent read, and closing or destroying it throws
\* nothing.
C10_NoSuccessCommitsNothing ==
    /\ \A h \in DOMAIN nat.txn :
          EndedWithoutSuccess(h) =>
              \A obj \in nat.committed \cup seen : obj.scope # h /\ obj.root # h
    /\ (/\ tlast.op \in {"close", "destroy"}
        /\ tlast.txn # 0
        /\ tlast.txn \notin tsucc) => tlast.threw = "none"

C10_Witness ==
    /\ tlast.op = "read"
    /\ nputs > 0
    /\ seen = {}
    /\ \E h \in DOMAIN nat.txn : nat.txn[h].top /\ EndedWithoutSuccess(h)
    /\ \A h \in DOMAIN nat.txn : nat.txn[h].mode = "WRITE"

\* how a Transaction object was closed before the call
Closed == {"success", "close", "moved"}

\* the objects that exist and hold the native handle h
Owners(h) == {i \in DOMAIN txs : txs[i].alive /\ txs[i].cTxn = h}

\* the step is a method call that can end a native transaction
IsEnding(op) == op \in {"success", "close", "destroy", "assign"}

\* C11: success() on a Transaction that was closed before - by success(), by
\* close() or by being moved from - throws IllegalStateException, and the
\* engine is left as it was (no call reaches it, nothing is committed).
C11_SuccessOnClosedThrows ==
    [][ (tlast'.op = "success" /\ tgone[tlast'.obj] \in Closed)
        => /\ tlast'.threw = "IllegalStateException"
           /\ nat' = nat ]_vars

C11_Witness ==
    /\ tlast.op = "success"
    /\ tgone[tlast.obj] = "moved"
    /\ tlast.threw = "IllegalStateException"
    /\ \E i \in DOMAIN txs : tgone[i] = "no" /\ txs[i].mode = "WRITE"

\* C12: close() or the destructor on a Transaction that was ended before by
\* close() or by success() changes nothing in the engine and throws nothing.
C12_CloseIsIdempotent ==
    [][ (tlast'.op \in {"close", "destroy"} /\ tgone[tlast'.obj] \in {"success", "close"})
        => /\ nat' = nat
           /\ tlast'.threw = "none" ]_vars

C12_Witness ==
    /\ tlast.op = "destroy"
    /\ tgone[tlast.obj] = "success"
    /\ nat.commits = 1
    /\ nat.stack # <<>>

\* C13: every native handle is finished exactly once: as long as no
\* finishing call was made for it exactly one existing Transaction holds it,
\* after the one finishing call none does; so no handle gets two finishing
\* calls and none is left without one when all objects are destroyed.
C13_HandleFinishedExactlyOnce ==
    \A h \in DOMAIN nat.txn :
        /\ nat.txn[h].calls \in {0, 1}
        /\ nat.txn[h].calls + Cardinality(Owners(h)) = 1

C13_Witness ==
    /\ Len(txs) = MaxTx
    /\ \A i \in DOMAIN txs : ~txs[i].alive
    /\ nmoves > 0
    /\ nat.txn # <<>>
    /\ \A h \in DOMAIN nat.txn : nat.txn[h].calls = 1

C15_SuccessOnReadThrows ==
    [][ (tlast'.op = "success" /\ tlast'.txn # 0 /\ nat.txn[tlast'.txn].mode = "READ")
        => /\ tlast'.threw # "none"
           /\ nat'.commits = nat.commits
           /\ nat'.committed = nat.committed ]_vars

C15_Witness ==
    /\ tlast.op = "success"
    /\ tlast.txn # 0
    /\ nat.txn[tlast.txn].mode = "READ"
    /\ nat.txn[tlast.txn].top
    /\ tlast.threw = "IllegalStateException"

\* C16: constructing a write Transaction while the transaction running on
\* the thread is a read transaction throws, no Transaction object comes to
\* exist and the engine is left as it was; no write transaction is ever open
\* under a top level read transaction.
C16_WriteUnderReadFails ==
    [][ /\ (/\ tlast'.op = "open"
            /\ txs'[tlast'.obj].mode = "WRITE"
            /\ nat.stack # <<>>
            /\ nat.txn[nat.stack[1]].mode = "READ")
           => /\ tlast'.threw # "none"
              /\ ~txs'[tlast'.obj].alive
              /\ nat' = nat
        /\ \A h \in Range(nat'.stack) :
              nat'.txn[h].mode = "WRITE" => nat'.txn[nat'.stack[1]].mode = "WRITE" ]_vars

C16_Witness ==
    /\ tlast.op = "open"
    /\ txs[tlast.obj].mode = "WRITE"
    /\ tlast.threw = "IllegalStateException"
    /\ nat.stack # <<>>
    /\ nat.txn[nat.stack[1]].mode = "READ"

\* ------------------------------------- typed queries: properties

\* the Query objects the QueryBuilder object b returned from build()
BuiltFrom(b) == {q \in DOMAIN rqs : rqs[q].from = b}

\* the native query of the Query object q
NativeOf(q) == rcq[rqs[q].cQuery]

\* the literal of the condition on property p in a list of conditions
\* (-1: no such condition)
LiteralOf(conds, p) ==
    IF \E i \in DOMAIN conds : conds[i].propId = p
    THEN conds[CHOOSE i \in DOMAIN conds : conds[i].propId = p].value
    ELSE -1

\* the native builder after the conditions i.. of conds were applied to it
\* with QCInt64::applyTo, the literal v taken for the condition on p
RECURSIVE FreshBuilder(_, _, _, _, _)
FreshBuilder(bs, conds, i, p, v) ==
    IF i > Len(conds) THEN bs
    ELSE FreshBuilder(QCInt64_applyTo(bs, 1, conds[i].propId, conds[i].op,
                                      IF conds[i].propId = p THEN v ELSE conds[i].value).cqb,
                      conds, i + 1, p, v)

\* a freshly built query with the conditions of the native query q, the
\* literal v used for property p, and q's offset and limit
FreshWith(q, p, v) ==
    LET bs == FreshBuilder(<<NewBuilder(TRUE)>>, q.conds, 1, p, v)
        r  == QueryBuilder_build(bs, <<>>, [cQueryBuilder |-> 1, isRoot |-> TRUE], 1)
    IN  [r.rcq[1] EXCEPT !.offset = q.offset, !.limit = q.limit]

\* a query compiled from the same builder on which neither offset() nor
\* limit() was called
NeverCalled(q) == obx_query_compile(rcqb, rqbs[rqs[q].from].cQueryBuilder)

\* C17: build() on a builder that is not a root builder throws
\* IllegalStateException and creates neither a Query nor a native query;
\* every Query was built by a root builder.
C17_BuildOnlyOnRoot ==
    [][ /\ (rlast'.op = "build" /\ ~rqbs[rlast'.obj].isRoot)
           => /\ rlast'.threw = "IllegalStateException"
              /\ rcq' = rcq
              /\ rqs' = rqs
        /\ \A q \in DOMAIN rqs' :
              /\ rqbs'[rqs'[q].from].isRoot
              /\ rcqb'[rqbs'[rqs'[q].from].cQueryBuilder].root ]_vars

C17_Witness ==
    /\ rlast.op = "build"
    /\ ~rqbs[rlast.obj].isRoot
    /\ rlast.threw = "IllegalStateException"
    /\ rcqb[1].conds # <<>>
    /\ rqs = <<>>

\* C18 as claimed: a QueryBuilder is consumed by one build(): no builder has
\* returned two Query objects, no native builder was compiled twice.
C18_BuilderBuiltOnce ==
    \A b \in DOMAIN rqbs : Cardinality(BuiltFrom(b)) <= 1

\* C19: limit(0) and offset(0) are no-ops: after the call findIds() returns
\* what it returns on the same query with the limit (the offset) never set,
\* also when a non-zero value was set before; findIds() returns the ids the
\* native query finds.
C19_ZeroIsNoLimitNoOffset ==
    [][ /\ (rlast'.op = "limit" /\ rlast'.arg = 0)
           => Query_findIds(rcq', rqs[rlast'.obj]) =
                obx_query_find_ids([NativeOf(rlast'.obj) EXCEPT
                                       !.limit = NeverCalled(rlast'.obj).limit])
        /\ (rlast'.op = "offset" /\ rlast'.arg = 0)
           => Query_findIds(rcq', rqs[rlast'.obj]) =
                obx_query_find_ids([NativeOf(rlast'.obj) EXCEPT
                                       !.offset = NeverCalled(rlast'.obj).offset])
        /\ rlast'.op = "findIds"
           => /\ rfound' = obx_query_find_ids(NativeOf(rlast'.obj))
              /\ (NativeOf(rlast'.obj).limit = 0 /\ NativeOf(rlast'.obj).offset = 0)
                    => rfound' = Matching(NativeOf(rlast'.obj)) ]_vars

C19_Witness ==
    /\ rlast.op = "findIds"
    /\ rdirty.limit /\ rdirty.offset
    /\ NativeOf(rlast.obj).limit = 0
    /\ NativeOf(rlast.obj).offset = 0
    /\ rfound = Matching(NativeOf(rlast.obj))
    /\ Len(rfound) > MaxVal

\* C20: after setParameter(p, v) the query finds what a freshly built query
\* with the literal v for p finds; repeating the call changes nothing; calls
\* on distinct properties give the same query in either order; a call for a
\* property the query has no condition on throws and changes nothing; raising
\* the literal of greaterThan(createdAt, .) only removes rows.
C20_SetParameterRebinds ==
    [][ rlast'.op = "setParameter" =>
          LET o      == rqs[rlast'.obj]
              p      == rlast'.prop
              v      == rlast'.arg
              before == Query_findIds(rcq, o)
              after  == Query_findIds(rcq', o)
          IN  /\ rlast'.threw = "none"
                 => after = obx_query_find_ids(FreshWith(rcq[o.cQuery], p, v))
              /\ rlast'.threw # "none"
                 => /\ LiteralOf(rcq[o.cQuery].conds, p) = -1
                    /\ rcq' = rcq
              /\ Query_setParameter(rcq', o, p, v).rcq = rcq'
              /\ \A p2 \in Props \ {p}, v2 \in Vals :
                    Query_setParameter(rcq', o, p2, v2).rcq =
                      Query_setParameter(Query_setParameter(rcq, o, p2, v2).rcq, o, p, v).rcq
              /\ (p = "createdAt" /\ rlast'.threw = "none"
                     /\ v >= LiteralOf(rcq[o.cQuery].conds, p))
                 => /\ Range(after) \subseteq Range(before)
                    /\ Len(after) <= Len(before)
                    /\ \A id \in Range(after) : Rows[id].createdAt > v ]_vars

C20_Witness ==
    /\ rlast.op = "findIds"
    /\ LiteralOf(NativeOf(rlast.obj).conds, "priority") # -1
    /\ LiteralOf(rcqb[1].conds, "createdAt") # -1
    /\ LiteralOf(NativeOf(rlast.obj).conds, "createdAt") > LiteralOf(rcqb[1].conds, "createdAt")
    /\ rfound # <<>>
    /\ \A id \in Range(rfound) :
          Rows[id].createdAt > LiteralOf(NativeOf(rlast.obj).conds, "createdAt")
    /\ Len(rfound) < Len(obx_query_find_ids(NeverCalled(rlast.obj)))

\* the properties the native query q has a condition on
BoundProps(q) == {q.conds[i].propId : i \in DOMAIN q.conds}

\* C21: setParameter for a property the compiled query has no condition on
\* throws, and the failed call leaves every literal of the query, and what
\* the query finds, unchanged.
C21_SetParameterAbsentFails ==
    [][ (rlast'.op = "setParameter"
           /\ rlast'.prop \notin BoundProps(NativeOf(rlast'.obj)))
        => /\ rlast'.threw = throwError(OBX_NOT_FOUND)
           /\ rlast'.threw # "none"
           /\ rcq' = rcq
           /\ \A p \in Props :
                 LiteralOf(rcq'[rqs[rlast'.obj].cQuery].conds, p) = LiteralOf(NativeOf(rlast'.obj).conds, p)
           /\ Query_findIds(rcq', rqs[rlast'.obj]) = Query_findIds(rcq, rqs[rlast'.obj]) ]_vars

C21_Witness ==
    /\ rlast.op = "setParameter"
    /\ rlast.threw = "DbException"
    /\ BoundProps(NativeOf(rlast.obj)) = Props \ {rlast.prop}
    /\ rlast.arg # LiteralOf(NativeOf(rlast.obj).conds, CHOOSE p \in Props : p # rlast.prop)

\* C22 as claimed: every failure the native engine reports during find,
\* findIds, visit, count or remove reaches the caller as an exception whose
\* code() is the engine's error code; no failure ends as a normal result.
C22_EngineErrorReachesCaller ==
    xlast.err # OBX_SUCCESS
    => /\ xlast.ret.threw # "none"
       /\ xlast.ret.code = xlast.err

\* C23: a lookup of an id that is not stored is a miss, not an exception:
\* get(id, out) returns false and leaves out as it was, get(ids) returns as
\* many entries as ids with an empty entry exactly where the id is not
\* stored (the engine reporting no failure of its own).
C23_MissIsNotAFailure ==
    [][ /\ (blast'.op = "get" /\ bcalls' # bcalls /\ ~blast'.failed)
           => /\ blast'.threw = "none"
              /\ blast'.ids[1] \notin VisibleIds(nat)
                 => (blast'.ret = FALSE /\ bout' = bout)
              /\ blast'.ids[1] \in VisibleIds(nat)
                 => (blast'.ret = TRUE /\ bout' = [id |-> blast'.ids[1]])
        /\ (blast'.op = "getMany" /\ bcalls' # bcalls /\ ~blast'.failed)
           => /\ blast'.threw = "none"
              /\ Len(blast'.ret) = Len(blast'.ids)
              /\ \A i \in DOMAIN blast'.ids :
                    /\ ~blast'.ret[i].has <=> blast'.ids[i] \notin VisibleIds(nat)
                    /\ blast'.ret[i].has => blast'.ret[i].obj.id = blast'.ids[i] ]_vars

C23_Witness ==
    /\ blast.op = "get"
    /\ ~blast.failed
    /\ blast.ret = FALSE
    /\ blast.threw = "none"
    /\ bout.id \in VisibleIds(nat)
    /\ bout.id # blast.ids[1]

\* the records the put(vector) call in transaction scope put for ids
PutRecords(n, ids, scope) ==
    {[id |-> ids[i], scope |-> scope, root |-> n.txn[scope].root] : i \in DOMAIN ids}

\* C24: put(vector) puts all objects in one write transaction; when putting
\* one of them fails the exception reaches the caller and no object of the
\* call is persisted, then or later; when it succeeds at top level all
\* objects are committed by one commit.
C24_PutVectorIsAtomic ==
    [][ /\ \A r \in nat'.committed : r.scope \notin bfailed'
        /\ (blast'.op = "putMany" /\ bcalls' # bcalls)
           => /\ Len(nat'.txn) <= Len(nat.txn) + 1
              /\ nat'.stack = nat.stack
              /\ blast'.failed => blast'.threw # "none"
              /\ blast'.threw # "none"
                 => /\ nat'.committed = nat.committed
                    /\ nat.stack = <<>> => nat'.pending = {}
                    /\ blast'.ret = 0
              /\ (blast'.threw = "none" /\ blast'.scope # 0)
                 => /\ blast'.ret = Len(blast'.ids)
                    /\ nat.stack = <<>>
                       => /\ nat'.commits = nat.commits + 1
                          /\ nat'.committed =
                               nat.committed \cup PutRecords(nat', blast'.ids, blast'.scope)
                    /\ nat.stack # <<>>
                       => /\ nat'.committed = nat.committed
                          /\ PutRecords(nat', blast'.ids, blast'.scope) \subseteq nat'.pending ]_vars

C24_Witness ==
    /\ blast.op = "putMany"
    /\ blast.threw # "none"
    /\ blast.scope # 0
    /\ Len(blast.ids) >= 1
    /\ nat.committed # {}
    /\ \A i \in DOMAIN blast.ids : blast.ids[i] \notin {r.id : r \in nat.committed}

\* C25: Store::close() called repeatedly and from several threads at once
\* closes the native store of an owned store exactly once (never for a store
\* that is not owned), and a call that did not get the handle changes
\* nothing when it reaches obx_store_close.
C25_StoreClosedExactlyOnce ==
    [][ /\ sengine'.storeCloses <= (IF sstore'.owned_ THEN 1 ELSE 0)
        /\ \A h \in DOMAIN sengine'.syncCloses : sengine'.syncCloses[h] <= 1
        /\ (/\ sstore'.exists
            /\ sstore'.owned_
            /\ sstore'.cStore_ = 0
            /\ \A t \in Threads : sthreads'[t].pc # "closeNative")
           => sengine'.storeCloses = 1
        /\ (slast' # slast /\ slast'.op = "close" /\ sstore'.owned_) => sstore'.cStore_ = 0
        /\ (sstore.exists /\ ~sstore.owned_) => sstore'.cStore_ = sstore.cStore_
        /\ \A t \in Threads :
              (/\ sthreads[t].pc = "closeNative"
               /\ sthreads'[t].pc = "idle"
               /\ sthreads[t].storeToClose = 0)
              => <<sstore', sclients', sengine'>> = <<sstore, sclients, sengine>> ]_vars

C25_Witness ==
    /\ sstore.owned_
    /\ sengine.storeCloses = 1
    /\ sengine.syncCloses = <<1>>
    /\ sthreads[1].pc = "closeNative"
    /\ sthreads[1].storeToClose = 0
    /\ sthreads[2].calls = MaxStoreCalls
    /\ slast = [t |-> 2, op |-> "close", threw |-> "none"]

\* C27: a Sync::client() call whose setCredentials fails comes back to its
\* caller: the thread that is in the catch block of the SyncClient
\* constructor eventually leaves Sync::client().
C27_ClientAlwaysTerminates ==
    \A t \in Threads : (sthreads[t].pc = "clientCatch") ~> (sthreads[t].pc = "idle")

\* C26: once a condition call on a builder failed the builder keeps the
\* error code of that call, whatever is added afterwards, and build() on it
\* throws and creates neither a Query nor a native query.
C26_BuilderErrorIsSticky ==
    [][ /\ \A b \in DOMAIN rcqb :
              obx_qb_error_code(rcqb, b) # OBX_SUCCESS
              => obx_qb_error_code(rcqb', b) = obx_qb_error_code(rcqb, b)
        /\ rlast'.op = "equalsString"
           => /\ rlast'.threw = throwError(OBX_ERROR_PROPERTY_TYPE_MISMATCH)
              /\ obx_qb_error_code(rcqb', 1) = OBX_ERROR_PROPERTY_TYPE_MISMATCH
        /\ (rlast'.op = "build" /\ rqbs[rlast'.obj].isRoot
              /\ obx_qb_error_code(rcqb, rqbs[rlast'.obj].cQueryBuilder) # OBX_SUCCESS)
           => /\ rlast'.threw = throwError(OBX_ERROR_PROPERTY_TYPE_MISMATCH)
              /\ rqs' = rqs
              /\ rcq' = rcq
        /\ \A q \in DOMAIN rqs' : rqs'[q].cQuery # 0 ]_vars

C26_Witness ==
    /\ rlast.op = "build"
    /\ rlast.threw = "DbException"
    /\ obx_qb_error_code(rcqb, 1) = OBX_ERROR_PROPERTY_TYPE_MISMATCH
    /\ rcqb[1].late >= 2
    /\ Len(rcqb[1].conds) = 2
    /\ rqs = <<>>

\* C28: while an error listener L set with setErrorListener is in place, an
\* error event of the engine runs L's errorOccurred, with or without a change
\* listener.
C28_ErrorEventReachesListener ==
    [][ (EngineErrorEvent /\ listeners_.error # 0)
        => levent' = [to |-> listeners_.error, call |-> "errorOccurred"] ]_vars

\* C29: whatever listener setters were called, every callback registered
\* with the engine has as its argument a listener object that one of the
\* client's slots still holds and that was not released.
C29_RegistrationsReferToHeldListeners ==
    \A k \in DOMAIN lreg :
        lreg[k].cls # "none"
        => /\ lreg[k].arg # 0
           /\ lreg[k].arg \notin lreleased
           /\ \E slot \in DOMAIN listeners_ : listeners_[slot] = lreg[k].arg

\* C30: the native cursor of a CursorTx is opened in the transaction the
\* CursorTx began and is closed, once, before that transaction is committed
\* or closed, on commitAndClose() and on destruction; commitAndClose() on a
\* CursorTx that has no cursor (after commitAndClose()) throws
\* IllegalStateException and reaches neither the cursor nor the transaction.
C30_CursorInsideTransaction ==
    [][ /\ \A k \in DOMAIN curs' :
              /\ ~curs'[k].orphan
              /\ curs'[k].closes <= 1
              /\ curs'[k].open => nat'.txn[curs'[k].txn].open
        /\ \A k \in DOMAIN curs' \ DOMAIN curs :
              /\ curs'[k].txn \in DOMAIN nat'.txn \ DOMAIN nat.txn
              /\ clast'.op = "open"
        /\ clast'.op \in {"commitAndClose", "destroy"}
           => /\ ~ctxs'[clast'.obj].alive \/ clast'.op = "commitAndClose"
              /\ ctxs'[clast'.obj].cCursor = 0 \/ clast'.op = "destroy"
              /\ ctxs'[clast'.obj].tx.cTxn = 0
              /\ clast'.cur # 0 => ~curs'[clast'.cur].open
              /\ clast'.txn # 0 => ~nat'.txn[clast'.txn].open
        /\ (clast'.op = "commitAndClose" /\ clast'.cur = 0)
           => /\ clast'.threw = "IllegalStateException"
              /\ nat' = nat
              /\ curs' = curs ]_vars

C30_Witness ==
    /\ clast.op = "commitAndClose"
    /\ clast.cur = 0
    /\ clast.threw = "IllegalStateException"
    /\ nat.commits = 1
    /\ \E k \in DOMAIN curs : curs[k].closes = 1

====
